---- MODULE Spec2Model ----
(***************************************************************************)
(* A model of the execution core of OpenManus: the bounded message store   *)
(* (app/schema.py, Memory), the think/act step loop (app/agent/react.py    *)
(* and the agents built on it), the persistent command session             *)
(* (app/tool/bash.py, _BashSession and Bash), the step of the SWEAgent     *)
(* (app/agent/swe.py), the planning tool (app/tool/planning.py), the sum   *)
(* of two tool results (app/tool/base.py) and the file editor              *)
(* (app/tool/str_replace_editor.py).                                       *)
(*                                                                         *)
(* Ten specifications share the module:                                    *)
(*   Spec      the message store under its four writers;                   *)
(*   LoopSpec  one run of the step loop against an arbitrary oracle;       *)
(*   BashSpec  one Bash tool instance used by concurrent execute calls;    *)
(*   SessSpec  one _BashSession used by one caller at a time;              *)
(*   SweSpec   the steps of one SWEAgent with its own Bash instance;       *)
(*   PlanSpec  one planning tool under sequences of its seven commands;    *)
(*   AgentSpec one PlanningAgent over its planning tool;                   *)
(*   ManusSpec the thinks of one Manus agent;                              *)
(*   MergeSpec the sums of three tool results;                             *)
(*   EditSpec  one StrReplaceEditor on one path.                           *)
(* Each leaves the variables of the others parked at their initial value.  *)
(***************************************************************************)
EXTENDS Integers, Sequences, FiniteSets, TLC

VARIABLES
    \* ---- Memory (app/schema.py) ----
    messages,       \* Memory.messages: the stored messages, oldest first
    max_messages,   \* Memory.max_messages
    memOp,          \* the last operation applied to the store
    memArg,         \* the argument of that operation (a sequence of messages)
    log,            \* history: every message handed to the store since it was last empty
    onlyAdd         \* history: TRUE while add_message was the only writer since then

VARIABLES
    \* ---- The step loop (app/agent/react.py and the agents on it) ----
    state,          \* ReActAgent.state, an AgentState
    current_step,   \* ReActAgent.current_step
    max_steps,      \* ReActAgent.max_steps
    pc,             \* where run stands: idle, check, think, act, done
    tool_call,      \* the function name of the call the oracle selected, or "none"
    step_result,    \* what the last step returned
    iterations      \* history: think/act iterations executed by this run

VARIABLES
    \* ---- The command session (app/tool/bash.py) ----
    session,        \* Bash._session: 0 for None, else the session's number
    sess,           \* the _BashSession objects, by number
    nextSession,    \* the number the next _BashSession() gets
    nextCmd,        \* the number the next command gets
    tpc,            \* where each execute call stands
    tsess,          \* the session whose start() the call awaits
    trun,           \* the session whose run() the call is in (0: none)
    tgiven,         \* whether the call was given a command (FALSE: command=None)
    tcmd,           \* the number of the command the call wrote (0: none yet)
    tres,           \* what the call returned or raised
    written         \* history: the session each command was written to (0: none)

VARIABLES
    \* ---- One _BashSession used serially, and SWEAgent.step on it ----
    one,            \* the _BashSession: its flags, its process, its pipes
    made,           \* whether the owner holds the session yet (Bash._session is not None)
    opc,            \* "idle", or "polling" while a run awaits the sentinel
    op,             \* the last call made on the session
    ret,            \* what that call returned or raised
    before,         \* history: the session as that call found it
    raw,            \* history: stdout and stderr as the last successful poll found them
    ncmd,           \* commands written to the session so far
    stopped,        \* history: stop() has returned on the session
    swe_pc,         \* where SWEAgent.step stands: idle, pwd, think, act
    swe_out,        \* how the last step ended: none, returned, raised
    swe_steps,      \* steps begun
    working_dir     \* SWEAgent.working_dir

VARIABLES
    \* ---- The planning tool (app/tool/planning.py) ----
    plans,            \* PlanningTool.plans: plan id -> plan
    current_plan_id,  \* PlanningTool._current_plan_id, "" for None
    planCmd,          \* the last command executed
    planArg,          \* its plan_id argument, "" when omitted
    planTarget,       \* the plan id it resolved to, "" when it got to none
    planRes,          \* "ok", or the ToolError it raised
    planCmds          \* commands executed so far

VARIABLES
    \* ---- The PlanningAgent (app/agent/planning.py) ----
    active_plan_id,          \* PlanningAgent.active_plan_id, "" for None
    current_step_index,      \* PlanningAgent.current_step_index: <<>> for None, <<i>> for i
    step_execution_tracker,  \* PlanningAgent.step_execution_tracker: call id -> entry
    tool_calls,              \* PlanningAgent.tool_calls: the calls the last think selected
    apc,                     \* where the agent stands: new, ready, thought, raised
    aop,                     \* the last operation: none, run, think, act
    plan_text,               \* history: what get_plan returned to the last think
    super_ret,               \* history: what the underlying think or act returned
    agent_ret,               \* what the agent's think or act returned
    agent_steps,             \* think/act rounds begun
    created_id               \* history: the id of the plan create_initial_plan's call created

VARIABLES
    \* ---- Manus.think (app/agent/manus.py) ----
    next_step_prompt,  \* Manus.next_step_prompt
    manus_msgs,        \* Memory.messages: per message, the tool names of its tool_calls
    manus_before,      \* history: next_step_prompt as the last think found it
    manus_out,         \* how the last think ended: none, returned, raised
    manus_thinks       \* thinks begun

VARIABLES
    \* ---- ToolResult.__add__ (app/tool/base.py) ----
    m_args,    \* three results a, b, c
    m_first,   \* a + b and b + c, once computed
    m_second,  \* (a + b) + c and a + (b + c), once computed
    m_pc       \* how far the sums were taken: drawn, first, second

VARIABLES
    \* ---- The editor (app/tool/str_replace_editor.py), one path ----
    file,          \* the file at the path: whether it exists, and its text
    file_history,  \* StrReplaceEditor._file_history[path]
    edit_cmd,      \* the last command executed on the path
    edit_res,      \* "ok", or the ToolError it raised
    edit_stack,    \* history: the file as each edit not yet undone found it
    edit_count     \* commands executed so far

VARIABLES
    \* ---- SWEAgent: the directory in the prompt (app/agent/swe.py) ----
    swe_prompt,  \* SWEAgent.next_step_prompt: the template, or what was formatted into it
    tool_dir     \* the current directory of the shell of the Bash tool in available_tools

memVars == <<messages, max_messages, memOp, memArg, log, onlyAdd>>

loopVars == <<state, current_step, max_steps, pc, tool_call, step_result, iterations>>

bashVars ==
    <<session, sess, nextSession, nextCmd, tpc, tsess, trun, tgiven, tcmd, tres, written>>

sessVars ==
    <<one, made, opc, op, ret, before, raw, ncmd, stopped, swe_pc, swe_out, swe_steps,
      working_dir>>

sweVars == <<swe_pc, swe_out, swe_steps, working_dir>>

planVars ==
    <<plans, current_plan_id, planCmd, planArg, planTarget, planRes, planCmds>>

agentVars ==
    <<active_plan_id, current_step_index, step_execution_tracker, tool_calls, apc, aop,
      plan_text, super_ret, agent_ret, agent_steps, created_id>>

manusVars == <<next_step_prompt, manus_msgs, manus_before, manus_out, manus_thinks>>

mergeVars == <<m_args, m_first, m_second, m_pc>>

editVars == <<file, file_history, edit_cmd, edit_res, edit_stack, edit_count>>

dirVars == <<swe_prompt, tool_dir>>

vars ==
    <<memVars, loopVars, bashVars, sessVars, planVars, agentVars, manusVars,
      mergeVars, editVars, dirVars>>

\* What the actions of one part leave alone: the variables of the other parts.
notMem ==
    <<loopVars, bashVars, sessVars, planVars, agentVars, manusVars,
      mergeVars, editVars, dirVars>>

notLoop ==
    <<memVars, bashVars, sessVars, planVars, agentVars, manusVars,
      mergeVars, editVars, dirVars>>

notBash ==
    <<memVars, loopVars, sessVars, planVars, agentVars, manusVars,
      mergeVars, editVars, dirVars>>

notSess ==
    <<memVars, loopVars, bashVars, planVars, agentVars, manusVars,
      mergeVars, editVars, dirVars>>

notPlan ==
    <<memVars, loopVars, bashVars, sessVars, agentVars, manusVars,
      mergeVars, editVars, dirVars>>

\* The planning tool's command history, which the agent's own calls leave alone.
planHist == <<planCmd, planArg, planTarget, planRes, planCmds>>

notAgent ==
    <<planHist, memVars, loopVars, bashVars, sessVars, manusVars,
      mergeVars, editVars, dirVars>>

notManus ==
    <<memVars, loopVars, bashVars, sessVars, planVars, agentVars,
      mergeVars, editVars, dirVars>>

\* What the SWEAgent's step leaves alone: as notSess, less the prompt and the
\* tool's shell.
notSwe ==
    <<memVars, loopVars, bashVars, planVars, agentVars, manusVars, mergeVars, editVars>>

notMerge ==
    <<memVars, loopVars, bashVars, sessVars, planVars, agentVars, manusVars,
      editVars, dirVars>>

notEdit ==
    <<memVars, loopVars, bashVars, sessVars, planVars, agentVars, manusVars,
      mergeVars, dirVars>>

(***************************************************************************)
(* Bounds of the model.                                                    *)
(***************************************************************************)
MaxBound == 3      \* max_messages ranges over 1..MaxBound
MaxLog == 5        \* messages handed to one store before it is cleared
MaxBatch == 3      \* longest batch given to add_messages
MaxSteps == 3      \* max_steps ranges over 1..MaxSteps
MaxSessions == 2   \* _BashSession objects one Bash tool creates
MaxCmds == 2       \* commands given to one Bash tool
MaxRuns == 3       \* commands written to the one session used serially
MaxSweSteps == 3   \* steps of one SWEAgent
MaxPlanSteps == 2  \* longest step list given to the planning tool
MaxPlanCmds == 3   \* commands given to one planning tool
MaxAgentSteps == 3 \* think/act rounds of one PlanningAgent
MaxManusThinks == 3  \* thinks of one Manus agent
MaxManusMsgs == 4  \* messages without tool calls one Manus store is given
MaxEdits == 4      \* commands given to one editor

(***************************************************************************)
(* Python list helpers.                                                    *)
(***************************************************************************)
Max(a, b) == IF a >= b THEN a ELSE b

Min(a, b) == IF a <= b THEN a ELSE b

\* s[-k:] for k >= 0.  Python reads -0 as 0, so s[-0:] is the whole list.
PySliceLast(s, k) ==
    IF k = 0 THEN s
    ELSE SubSeq(s, Max(1, Len(s) - k + 1), Len(s))

\* A mis-trim that keeps the oldest k entries instead of the newest.
PySliceFirst(s, k) == SubSeq(s, 1, Min(k, Len(s)))

\* The list after Memory.add_message(m): append, then trim to the newest
\* max_messages entries when the bound is exceeded.
add_message_keep_oldest(msgs, m, bound) ==
    LET appended == Append(msgs, m)
    IN  IF Len(appended) > bound THEN PySliceFirst(appended, bound) ELSE appended

add_message(msgs, m, bound) ==
    LET appended == Append(msgs, m)
    IN  IF Len(appended) > bound THEN PySliceLast(appended, bound) ELSE appended

\* The list after Memory.add_messages(ms): a bare list.extend.
add_messages(msgs, ms, bound) == msgs \o ms

\* add_message applied to each element of ms in order.
RECURSIVE AddEach(_, _, _)
AddEach(msgs, ms, bound) ==
    IF ms = <<>> THEN msgs
    ELSE AddEach(add_message(msgs, Head(ms), bound), Tail(ms), bound)

\* The next k fresh messages: a message is named by its position in the log.
Fresh(k) == [i \in 1..k |-> Len(log) + i]

(***************************************************************************)
(* The message store.                                                      *)
(***************************************************************************)
\* Memory.add_message(message)
AddMessage ==
    /\ Len(log) < MaxLog
    /\ LET ms == Fresh(1)
       IN  /\ messages' = add_message(messages, ms[1], max_messages)
           /\ memOp' = "add_message"
           /\ memArg' = ms
           /\ log' = log \o ms
    /\ UNCHANGED <<max_messages, onlyAdd, notMem>>

\* Memory.add_messages(messages)
AddMessages ==
    \E k \in 0..MaxBatch :
        /\ Len(log) + k <= MaxLog
        /\ LET ms == Fresh(k)
           IN  /\ messages' = add_messages(messages, ms, max_messages)
               /\ memOp' = "add_messages"
               /\ memArg' = ms
               /\ log' = log \o ms
        /\ onlyAdd' = FALSE
        /\ UNCHANGED <<max_messages, notMem>>

\* PlanningAgent.think: self.messages.append(Message.user_message(prompt)),
\* an append on the list itself, past add_message.
DirectAppend ==
    /\ Len(log) < MaxLog
    /\ LET ms == Fresh(1)
       IN  /\ messages' = Append(messages, ms[1])
           /\ memOp' = "append"
           /\ memArg' = ms
           /\ log' = log \o ms
    /\ onlyAdd' = FALSE
    /\ UNCHANGED <<max_messages, notMem>>

\* Memory.clear()
Clear ==
    /\ messages' = <<>>
    /\ memOp' = "clear"
    /\ memArg' = <<>>
    /\ log' = <<>>
    /\ onlyAdd' = TRUE
    /\ UNCHANGED <<max_messages, notMem>>

(***************************************************************************)
(* The step loop.                                                          *)
(***************************************************************************)
\* AgentState
IDLE == "IDLE"

RUNNING == "RUNNING"

FINISHED == "FINISHED"

ERROR == "ERROR"

\* Terminate.name
TerminateName == "terminate"

\* special_tool_names of PlanningAgent, SWEAgent and Manus: [Terminate().name]
special_tool_names_empty == {}

special_tool_names == {TerminateName}

\* The tools registered with the agent, and the names an oracle may put in a call.
Registered == {TerminateName, "planning", "bash"}

OracleNames == Registered \cup {"frobnicate"}

\* ReActAgent.step, after think: act only when think selected a call.
StepAfterThinkAlwaysAct(should_act) == "act"

StepAfterThink(should_act) == IF should_act THEN "act" ELSE "check"

\* ReActAgent.step, after act: the step returns act's result to the loop.
StepAfterActRethink == "think"

StepAfterAct == "check"

\* run(request): Idle -> Running.
RunStart ==
    /\ pc = "idle"
    /\ state = IDLE
    /\ state' = RUNNING
    /\ pc' = "check"
    /\ UNCHANGED <<current_step, max_steps, tool_call, step_result, iterations, notLoop>>

\* The loop check: another iteration while the budget lasts and the agent has
\* not finished.
RunIterate ==
    /\ pc = "check"
    /\ state = RUNNING
    /\ current_step < max_steps
    /\ current_step' = current_step + 1
    /\ pc' = "think"
    /\ UNCHANGED <<state, max_steps, tool_call, step_result, iterations, notLoop>>

\* The loop check after a special tool finished the agent: run returns.
RunReturnFinished ==
    /\ pc = "check"
    /\ state = FINISHED
    /\ pc' = "done"
    /\ UNCHANGED <<state, current_step, max_steps, tool_call, step_result, iterations, notLoop>>

\* The loop check with the budget used up: Finished, "max steps reached".
RunReturnMaxSteps ==
    /\ pc = "check"
    /\ state = RUNNING
    /\ current_step >= max_steps
    /\ state' = FINISHED
    /\ step_result' = "max_steps_reached"
    /\ pc' = "done"
    /\ UNCHANGED <<current_step, max_steps, tool_call, iterations, notLoop>>

\* step: should_act = await self.think().  The oracle answers with no call or
\* with a call naming any tool.
Think ==
    /\ pc = "think"
    /\ \E name \in OracleNames \cup {"none"} :
        /\ tool_call' = name
        /\ pc' = StepAfterThink(name /= "none")
        /\ step_result' = IF name = "none" THEN "no_action_needed" ELSE step_result
    /\ iterations' = iterations + 1
    /\ UNCHANGED <<state, current_step, max_steps, notLoop>>

\* think fails beyond recovery (the oracle call): Running -> Error, to the caller.
ThinkFatal ==
    /\ pc = "think"
    /\ state' = ERROR
    /\ step_result' = "raised"
    /\ pc' = "done"
    /\ iterations' = iterations + 1
    /\ UNCHANGED <<current_step, max_steps, tool_call, notLoop>>

\* step: return await self.act().  The dispatcher resolves the name, decodes the
\* arguments and invokes the tool; every failure becomes an error result.  After
\* an execution of a special tool the agent is Finished.
Act ==
    /\ pc = "act"
    /\ \E outcome \in {"ok", "bad_arguments", "tool_raised"} :
        LET result == IF tool_call \notin Registered THEN "error_unknown_tool"
                      ELSE IF outcome = "ok" THEN "ok"
                      ELSE "error_" \o outcome
        IN  /\ step_result' = result
            /\ state' = IF result = "ok" /\ tool_call \in special_tool_names
                         THEN FINISHED ELSE state
    /\ pc' = StepAfterAct
    /\ UNCHANGED <<current_step, max_steps, tool_call, iterations, notLoop>>

LoopNext ==
    \/ RunStart
    \/ RunIterate
    \/ RunReturnFinished
    \/ RunReturnMaxSteps
    \/ Think
    \/ ThinkFatal
    \/ Act

(***************************************************************************)
(* The command session.                                                    *)
(*                                                                         *)
(* A process is "none" (not spawned), "alive", "dead" (terminated or       *)
(* exited, returncode still None) or "reaped" (returncode set).  Its       *)
(* stdout and stderr buffers hold tokens [cmd, kind]: a chunk of output    *)
(* ("out"), the echoed sentinel ("sentinel"), a chunk of stderr ("err").   *)
(* execute calls are asyncio tasks: each action below is the code between  *)
(* two suspension points.                                                  *)
(***************************************************************************)
Sessions == 1..MaxSessions

Tasks == {"t1", "t2"}

NoResult == [kind |-> "none", out |-> <<>>, err |-> <<>>]

Raised(kind) == [kind |-> kind, out |-> <<>>, err |-> <<>>]

Token(c, kind) == [cmd |-> c, kind |-> kind]

\* _BashSession.__init__: not started, not timed out; no process yet.
NewSessionStale ==
    [started |-> FALSE, timed_out |-> TRUE, proc |-> "none", stdin |-> <<>>,
     out |-> <<>>, err |-> <<>>, outDone |-> FALSE]

NewSession ==
    [started |-> FALSE, timed_out |-> FALSE, proc |-> "none", stdin |-> <<>>,
     out |-> <<>>, err |-> <<>>, outDone |-> FALSE]

\* A start() that spawns whatever the session's state.
start_respawn(rec) == [rec EXCEPT !.proc = "alive", !.started = TRUE]

\* _BashSession.start, from the spawn on: the process handle and _started.
start(rec) ==
    IF rec.started THEN rec
    ELSE [rec EXCEPT !.proc = "alive", !.started = TRUE]

\* _BashSession.stop raises on a session that has not started.
StopRaises(rec) == ~rec.started

\* A stop() that terminates whatever the returncode.
stop_unguarded(rec) == [rec EXCEPT !.proc = "dead"]

\* _BashSession.stop otherwise: terminate the process unless its returncode is set.
stop_without_terminate(rec) == rec

stop(rec) ==
    IF rec.proc = "reaped" THEN rec
    ELSE [rec EXCEPT !.proc = IF @ = "alive" THEN "dead" ELSE @]

\* run's checks without the one on the returncode.
RunGuardNoExitCheck(rec) ==
    IF ~rec.started THEN "raised_not_started"
    ELSE IF rec.timed_out THEN "raised_timed_out"
    ELSE "write"

\* _BashSession.run, the checks before the command is written.
RunGuardNoTimedOutCheck(rec) ==
    IF ~rec.started THEN "raised_not_started"
    ELSE IF rec.proc = "reaped" THEN "error_exited"
    ELSE "write"

RunGuard(rec) ==
    IF ~rec.started THEN "raised_not_started"
    ELSE IF rec.proc = "reaped" THEN "error_exited"
    ELSE IF rec.timed_out THEN "raised_timed_out"
    ELSE "write"

\* The position of the first sentinel in a buffer, 0 when there is none.
FirstSentinel(buf) ==
    IF \E i \in 1..Len(buf) : buf[i].kind = "sentinel"
    THEN CHOOSE i \in 1..Len(buf) :
            /\ buf[i].kind = "sentinel"
            /\ \A j \in 1..(i - 1) : buf[j].kind /= "sentinel"
    ELSE 0

\* _BashSession.run(command) called by task t on session s, the sessions being
\* ss: the checks, then the write of the command and its sentinel echo.  A
\* command gets its number when it is written.
RunCall(t, ss, s) ==
    LET g == RunGuard(ss[s])
    IN  /\ trun' = [trun EXCEPT ![t] = s]
        /\ IF g = "write"
           THEN /\ nextCmd <= MaxCmds
                /\ sess' = [ss EXCEPT ![s].stdin = Append(@, nextCmd)]
                /\ tpc' = [tpc EXCEPT ![t] = "polling"]
                /\ tcmd' = [tcmd EXCEPT ![t] = nextCmd]
                /\ tres' = [tres EXCEPT ![t] = NoResult]
                /\ written' = [written EXCEPT ![nextCmd] = s]
                /\ nextCmd' = nextCmd + 1
           ELSE /\ sess' = ss
                /\ tpc' = [tpc EXCEPT ![t] = "done"]
                /\ tres' = [tres EXCEPT ![t] = Raised(g)]
                /\ UNCHANGED <<tcmd, written, nextCmd>>

\* Bash.execute(command, restart=False), up to its first suspension.
ExecCommand(t) ==
    /\ tpc[t] = "idle"
    /\ \E given \in BOOLEAN :
        IF session = 0
        THEN /\ nextSession <= MaxSessions
             /\ session' = nextSession
             /\ nextSession' = nextSession + 1
             /\ sess' = [sess EXCEPT ![nextSession] = NewSession]
             /\ tsess' = [tsess EXCEPT ![t] = nextSession]
             /\ tpc' = [tpc EXCEPT ![t] = "starting"]
             /\ tgiven' = [tgiven EXCEPT ![t] = given]
             /\ UNCHANGED <<trun, tcmd, tres, written, nextCmd>>
        ELSE /\ IF ~given
                THEN /\ tpc' = [tpc EXCEPT ![t] = "done"]
                     /\ tres' = [tres EXCEPT ![t] = Raised("raised_no_command")]
                     /\ UNCHANGED <<sess, trun, tcmd, written, nextCmd>>
                ELSE RunCall(t, sess, session)
             /\ UNCHANGED <<session, nextSession, tsess, tgiven>>
    /\ UNCHANGED notBash

\* Bash.execute(restart=True), up to its suspension in start().
ExecRestart(t) ==
    /\ tpc[t] = "idle"
    /\ IF session /= 0 /\ StopRaises(sess[session])
       THEN /\ tpc' = [tpc EXCEPT ![t] = "done"]
            /\ tres' = [tres EXCEPT ![t] = Raised("raised_stop_not_started")]
            /\ UNCHANGED <<session, sess, nextSession, tsess>>
       ELSE /\ nextSession <= MaxSessions
            /\ LET ss == IF session = 0 THEN sess
                         ELSE [sess EXCEPT ![session] = stop(@)]
               IN  sess' = [ss EXCEPT ![nextSession] = NewSession]
            /\ session' = nextSession
            /\ nextSession' = nextSession + 1
            /\ tsess' = [tsess EXCEPT ![t] = nextSession]
            /\ tpc' = [tpc EXCEPT ![t] = "restarting"]
            /\ UNCHANGED tres
    /\ UNCHANGED <<nextCmd, trun, tcmd, tgiven, written>>
    /\ UNCHANGED notBash

\* start() resumes in a restart: the call returns "tool has been restarted."
RestartReturn(t) ==
    /\ tpc[t] = "restarting"
    /\ sess' = [sess EXCEPT ![tsess[t]] = start(@)]
    /\ tpc' = [tpc EXCEPT ![t] = "done"]
    /\ tres' = [tres EXCEPT ![t] = Raised("restarted")]
    /\ UNCHANGED <<session, nextSession, nextCmd, tsess, trun, tcmd, tgiven, written>>
    /\ UNCHANGED notBash

\* start() resumes in a first use: the command runs on self._session, read anew.
StartReturn(t) ==
    /\ tpc[t] = "starting"
    /\ LET ss == [sess EXCEPT ![tsess[t]] = start(@)]
       IN  IF ~tgiven[t]
           THEN /\ sess' = ss
                /\ tpc' = [tpc EXCEPT ![t] = "done"]
                /\ tres' = [tres EXCEPT ![t] = Raised("raised_no_command")]
                /\ UNCHANGED <<trun, tcmd, written, nextCmd>>
           ELSE RunCall(t, ss, session)
    /\ UNCHANGED <<session, nextSession, tsess, tgiven>>
    /\ UNCHANGED notBash

\* run's poll finds the sentinel: what precedes it is the output, stderr's
\* buffer the error, and both buffers are cleared.
PollFound(t) ==
    /\ tpc[t] = "polling"
    /\ LET s == trun[t]
           i == FirstSentinel(sess[s].out)
       IN  /\ i /= 0
           /\ tres' = [tres EXCEPT ![t] =
                  [kind |-> "ok", out |-> SubSeq(sess[s].out, 1, i - 1),
                   err |-> sess[s].err]]
           /\ sess' = [sess EXCEPT ![s].out = <<>>, ![s].err = <<>>]
    /\ tpc' = [tpc EXCEPT ![t] = "done"]
    /\ UNCHANGED <<session, nextSession, nextCmd, tsess, trun, tcmd, tgiven, written>>
    /\ UNCHANGED notBash

\* run's asyncio.timeout expires during the poll loop.
PollTimeout(t) ==
    /\ tpc[t] = "polling"
    /\ sess' = [sess EXCEPT ![trun[t]].timed_out = TRUE]
    /\ tpc' = [tpc EXCEPT ![t] = "done"]
    /\ tres' = [tres EXCEPT ![t] = Raised("raised_timeout")]
    /\ UNCHANGED <<session, nextSession, nextCmd, tsess, trun, tcmd, tgiven, written>>
    /\ UNCHANGED notBash

\* What is left of a session no call can reach any more: its flags and its
\* process, the pipes dropped.
Collected(rec) ==
    [rec EXCEPT !.stdin = <<>>, !.out = <<>>, !.err = <<>>, !.outDone = FALSE]

\* The caller takes the result; the task is free for its next call.  A session
\* that neither the tool nor another call refers to becomes garbage.
Return(t) ==
    /\ tpc[t] = "done"
    /\ tpc' = [tpc EXCEPT ![t] = "idle"]
    /\ tsess' = [tsess EXCEPT ![t] = 0]
    /\ trun' = [trun EXCEPT ![t] = 0]
    /\ tcmd' = [tcmd EXCEPT ![t] = 0]
    /\ tgiven' = [tgiven EXCEPT ![t] = FALSE]
    /\ tres' = [tres EXCEPT ![t] = NoResult]
    /\ sess' = [s \in Sessions |->
            IF \/ s = session
               \/ \E u \in Tasks \ {t} : tpc[u] /= "idle" /\ (tsess[u] = s \/ trun[u] = s)
            THEN sess[s]
            ELSE Collected(sess[s])]
    /\ UNCHANGED <<session, nextSession, nextCmd, written>>
    /\ UNCHANGED notBash

\* A session some call can still reach: the tool's own, or one a suspended
\* call is bound to.  The process of any other session is garbage and is not
\* followed further.
Reachable(s) ==
    \/ session = s
    \/ \E t \in Tasks : tpc[t] /= "idle" /\ (tsess[t] = s \/ trun[t] = s)

\* The shell: the command at the head of stdin writes a chunk to stdout, and
\* possibly one to stderr.
ShellOutput(s) ==
    /\ Reachable(s)
    /\ sess[s].proc = "alive"
    /\ sess[s].stdin /= <<>>
    /\ ~sess[s].outDone
    /\ \E withErr \in BOOLEAN :
        LET c == Head(sess[s].stdin)
        IN  sess' = [sess EXCEPT
                ![s].out = Append(@, Token(c, "out")),
                ![s].err = IF withErr THEN Append(@, Token(c, "err")) ELSE @,
                ![s].outDone = TRUE]
    /\ UNCHANGED <<session, nextSession, nextCmd, tpc, tsess, trun, tcmd, tgiven, tres, written>>
    /\ UNCHANGED notBash

\* The shell: the command ends and the sentinel echo after it runs.
ShellSentinel(s) ==
    /\ Reachable(s)
    /\ sess[s].proc = "alive"
    /\ sess[s].stdin /= <<>>
    /\ sess' = [sess EXCEPT ![s].out = Append(@, Token(Head(sess[s].stdin), "sentinel")),
                            ![s].stdin = Tail(@),
                            ![s].outDone = FALSE]
    /\ UNCHANGED <<session, nextSession, nextCmd, tpc, tsess, trun, tcmd, tgiven, tres, written>>
    /\ UNCHANGED notBash

\* The shell: the command at the head of stdin makes the shell exit.
ShellExit(s) ==
    /\ Reachable(s)
    /\ sess[s].proc = "alive"
    /\ sess[s].stdin /= <<>>
    /\ sess' = [sess EXCEPT ![s].proc = "dead"]
    /\ UNCHANGED <<session, nextSession, nextCmd, tpc, tsess, trun, tcmd, tgiven, tres, written>>
    /\ UNCHANGED notBash

\* The event loop's child watcher sets the returncode of a dead process.
Reap(s) ==
    /\ Reachable(s)
    /\ sess[s].proc = "dead"
    /\ sess' = [sess EXCEPT ![s].proc = "reaped"]
    /\ UNCHANGED <<session, nextSession, nextCmd, tpc, tsess, trun, tcmd, tgiven, tres, written>>
    /\ UNCHANGED notBash

BashNext ==
    \/ \E t \in Tasks : ExecCommand(t)
    \/ \E t \in Tasks : ExecRestart(t)
    \/ \E t \in Tasks : RestartReturn(t)
    \/ \E t \in Tasks : StartReturn(t)
    \/ \E t \in Tasks : PollFound(t)
    \/ \E t \in Tasks : PollTimeout(t)
    \/ \E t \in Tasks : Return(t)
    \/ \E s \in Sessions : ShellOutput(s)
    \/ \E s \in Sessions : ShellSentinel(s)
    \/ \E s \in Sessions : ShellExit(s)
    \/ \E s \in Sessions : Reap(s)

(***************************************************************************)
(* One command session used by one caller at a time: the calls of          *)
(* _BashSession as its owner makes them, each complete before the next.    *)
(* Here a chunk of output may end in a newline, the token kind "nl"; the   *)
(* sentinel echo ends in one.                                              *)
(***************************************************************************)
Returned == [kind |-> "returned", out |-> <<>>, err |-> <<>>]

\* The results run raises as a ToolError; "error_exited" is a returned ToolResult.
RaiseKinds == {"raised_not_started", "raised_timed_out", "raised_timeout"}

\* run's clean-up: if output.endswith("\n"): output = output[:-1]
StripNewlineKeepsIt(buf) == buf

StripNewline(buf) ==
    IF buf /= <<>> /\ buf[Len(buf)].kind = "nl"
    THEN SubSeq(buf, 1, Len(buf) - 1)
    ELSE buf

\* output[: output.index(self._sentinel)]
BeforeSentinel(buf) == SubSeq(buf, 1, FirstSentinel(buf) - 1)

\* _BashSession.run(command) on the session as the caller finds it (rec): the
\* checks, then the write of the command and its sentinel echo.
OneRunCall(rec) ==
    LET g == RunGuard(rec)
    IN  /\ op' = "run"
        /\ before' = rec
        /\ IF g = "write"
           THEN /\ ncmd < MaxRuns
                /\ one' = [rec EXCEPT !.stdin = Append(@, ncmd + 1)]
                /\ ncmd' = ncmd + 1
                /\ opc' = "polling"
                /\ ret' = NoResult
           ELSE /\ one' = rec
                /\ ret' = Raised(g)
                /\ UNCHANGED <<ncmd, opc>>

\* await session.start()
SessStart ==
    /\ opc = "idle"
    /\ one' = start(one)
    /\ op' = "start"
    /\ ret' = Returned
    /\ before' = one
    /\ UNCHANGED <<made, opc, raw, ncmd, stopped, sweVars>>
    /\ UNCHANGED notSess

\* session.stop()
SessStop ==
    /\ opc = "idle"
    /\ IF StopRaises(one)
       THEN /\ ret' = Raised("raised_stop_not_started")
            /\ UNCHANGED <<one, stopped>>
       ELSE /\ one' = stop(one)
            /\ ret' = Returned
            /\ stopped' = TRUE
    /\ op' = "stop"
    /\ before' = one
    /\ UNCHANGED <<made, opc, raw, ncmd, sweVars>>
    /\ UNCHANGED notSess

\* await session.run(command), up to its suspension in the poll loop.
SessRun ==
    /\ opc = "idle"
    /\ OneRunCall(one)
    /\ UNCHANGED <<made, raw, stopped, sweVars>>
    /\ UNCHANGED notSess

\* run's poll finds the sentinel: the output is what precedes it, the error is
\* stderr's buffer, each less one trailing newline; both buffers are cleared.
SessPollFound ==
    /\ opc = "polling"
    /\ FirstSentinel(one.out) /= 0
    /\ ret' = [kind |-> "ok",
               out |-> StripNewline(BeforeSentinel(one.out)),
               err |-> StripNewline(one.err)]
    /\ one' = [one EXCEPT !.out = <<>>, !.err = <<>>]
    /\ raw' = [out |-> one.out, err |-> one.err]
    /\ opc' = "idle"
    /\ UNCHANGED <<made, op, before, ncmd, stopped, sweVars>>
    /\ UNCHANGED notSess

\* run's asyncio.timeout expires during the poll loop.
SessPollTimeout ==
    /\ opc = "polling"
    /\ one' = [one EXCEPT !.timed_out = TRUE]
    /\ ret' = Raised("raised_timeout")
    /\ opc' = "idle"
    /\ UNCHANGED <<made, op, before, raw, ncmd, stopped, sweVars>>
    /\ UNCHANGED notSess

\* The shell: the command at the head of stdin writes a chunk to stdout, and
\* possibly one to stderr; a chunk may end in a newline.
OneShellOutput ==
    /\ made
    /\ one.proc = "alive"
    /\ one.stdin /= <<>>
    /\ ~one.outDone
    /\ \E nl \in BOOLEAN, withErr \in BOOLEAN :
        LET c == Head(one.stdin)
            eol == IF nl THEN <<Token(c, "nl")>> ELSE <<>>
        IN  one' = [one EXCEPT
                !.out = @ \o <<Token(c, "out")>> \o eol,
                !.err = IF withErr THEN @ \o <<Token(c, "err")>> \o eol ELSE @,
                !.outDone = TRUE]
    /\ UNCHANGED <<made, opc, op, ret, before, raw, ncmd, stopped, sweVars>>
    /\ UNCHANGED notSess

\* The shell: the command ends and the sentinel echo after it runs.
OneShellSentinel ==
    /\ made
    /\ one.proc = "alive"
    /\ one.stdin /= <<>>
    /\ LET c == Head(one.stdin)
       IN  one' = [one EXCEPT
               !.out = @ \o <<Token(c, "sentinel"), Token(c, "nl")>>,
               !.stdin = Tail(@),
               !.outDone = FALSE]
    /\ UNCHANGED <<made, opc, op, ret, before, raw, ncmd, stopped, sweVars>>
    /\ UNCHANGED notSess

\* The shell: the command of the run being polled starts its output with a
\* chunk that holds the text of the sentinel (it prints a file or a log that
\* has it), and goes on.
OneShellSentinelText ==
    /\ made
    /\ one.proc = "alive"
    /\ opc = "polling"
    /\ one.stdin = <<ncmd>>
    /\ ~one.outDone
    /\ one.out = <<>>
    /\ one' = [one EXCEPT !.out = <<Token(ncmd, "out"), Token(ncmd, "sentinel")>>]
    /\ UNCHANGED <<made, opc, op, ret, before, raw, ncmd, stopped, sweVars>>
    /\ UNCHANGED notSess

\* The shell: a job that the command of the run that has just returned left
\* behind (command &) writes a chunk to stdout.
OneShellLateOutput ==
    /\ made
    /\ one.proc = "alive"
    /\ opc = "idle"
    /\ op = "run"
    /\ ret.kind = "ok"
    /\ one.stdin = <<>>
    /\ one.out = <<>>
    /\ one' = [one EXCEPT !.out = <<Token(ncmd, "late")>>]
    /\ UNCHANGED <<made, opc, op, ret, before, raw, ncmd, stopped, sweVars>>
    /\ UNCHANGED notSess

\* The shell process exits: by the command at the head of stdin, or killed.
OneShellExit ==
    /\ made
    /\ one.proc = "alive"
    /\ one' = [one EXCEPT !.proc = "dead"]
    /\ UNCHANGED <<made, opc, op, ret, before, raw, ncmd, stopped, sweVars>>
    /\ UNCHANGED notSess

\* The event loop's child watcher sets the returncode of a dead process.
OneReap ==
    /\ made
    /\ one.proc = "dead"
    /\ one' = [one EXCEPT !.proc = "reaped"]
    /\ UNCHANGED <<made, opc, op, ret, before, raw, ncmd, stopped, sweVars>>
    /\ UNCHANGED notSess

SessNext ==
    \/ SessStart
    \/ SessStop
    \/ SessRun
    \/ SessPollFound
    \/ SessPollTimeout
    \/ OneShellOutput
    \/ OneShellSentinel
    \/ OneShellSentinelText
    \/ OneShellLateOutput
    \/ OneShellExit
    \/ OneReap

(***************************************************************************)
(* SWEAgent.step: think refreshes the working directory through the        *)
(* agent's own Bash instance (SWEAgent.bash), whose session is the one     *)
(* above, then hands over to the think of ToolCallAgent.                   *)
(***************************************************************************)
\* SWEAgent.working_dir before the first think: "."
InitialDir == [kind |-> "dot", out |-> <<>>, err |-> <<>>]

\* The directory the process runs in: a shell starts in it.
StartDir == "/w"

\* The directories a shell may be in.
Dirs == {StartDir, "/w/sub"}

\* The prompt before the first think: it names the field that format fills.
NEXT_STEP_TEMPLATE == "{current_dir}"

\* template.format(current_dir=d): the field is replaced by the text; a text
\* that holds no field comes back as it is.
format(template, current_dir) ==
    IF template = NEXT_STEP_TEMPLATE THEN current_dir ELSE template

\* str(result) of what execute("pwd") returned from the agent's own shell,
\* which is given no other command and so stays in StartDir: the error text
\* if there is one, else the output.
result_str(result) ==
    IF result.err /= <<>> THEN "Error"
    ELSE IF result.out = <<>> THEN ""
    ELSE StartDir

\* step calls think, think calls self.bash.execute("pwd"): the first use makes
\* and starts the session, then the command runs on it.
SweStepBegin ==
    /\ swe_pc = "idle"
    /\ opc = "idle"
    /\ swe_steps < MaxSweSteps
    /\ swe_steps' = swe_steps + 1
    /\ made' = TRUE
    /\ OneRunCall(IF made THEN one ELSE start(NewSession))
    /\ swe_pc' = "pwd"
    /\ swe_out' = "none"
    /\ UNCHANGED <<raw, stopped, working_dir>>
    /\ UNCHANGED dirVars
    /\ UNCHANGED notSwe

\* execute("pwd") is over.  What it returned becomes working_dir and is
\* formatted into next_step_prompt, which is assigned the result; what it
\* raised leaves think, and step with it: neither has a handler.
SwePwdReturn ==
    /\ swe_pc = "pwd"
    /\ opc = "idle"
    /\ IF ret.kind \in RaiseKinds
       THEN /\ swe_out' = "raised"
            /\ swe_pc' = "idle"
            /\ UNCHANGED <<working_dir, swe_prompt>>
       ELSE /\ working_dir' = ret
            /\ swe_prompt' = format(swe_prompt, result_str(ret))
            /\ swe_pc' = "think"
            /\ UNCHANGED swe_out
    /\ UNCHANGED tool_dir
    /\ UNCHANGED <<one, made, opc, op, ret, before, raw, ncmd, stopped, swe_steps>>
    /\ UNCHANGED notSwe

\* return await super().think(); step goes on to act or returns.
SweSuperThink ==
    /\ swe_pc = "think"
    /\ \E should_act \in BOOLEAN :
        IF StepAfterThink(should_act) = "act"
        THEN /\ swe_pc' = "act"
             /\ UNCHANGED swe_out
        ELSE /\ swe_pc' = "idle"
             /\ swe_out' = "returned"
    /\ UNCHANGED <<one, made, opc, op, ret, before, raw, ncmd, stopped, swe_steps, working_dir>>
    /\ UNCHANGED dirVars
    /\ UNCHANGED notSwe

\* return await self.act(): the calls the model made are executed by the
\* tools of available_tools.  A call of its bash tool runs in the shell of
\* that Bash instance and leaves that shell in any directory.
SweAct ==
    /\ swe_pc = "act"
    /\ swe_pc' = "idle"
    /\ swe_out' = "returned"
    /\ tool_dir' \in Dirs
    /\ UNCHANGED swe_prompt
    /\ UNCHANGED <<one, made, opc, op, ret, before, raw, ncmd, stopped, swe_steps, working_dir>>
    /\ UNCHANGED notSwe

SweNext ==
    \/ SweStepBegin
    \/ SwePwdReturn
    \/ SweSuperThink
    \/ SweAct
    \/ SessPollFound
    \/ SessPollTimeout
    \/ OneShellOutput
    \/ OneShellSentinel
    \/ OneShellExit
    \/ OneReap

(***************************************************************************)
(* The planning tool.                                                      *)
(*                                                                         *)
(* plans is the dict: a function whose domain is the set of stored ids.    *)
(* An argument left out (None) or empty is "" for a string and <<>> for    *)
(* the step list: the code tests both with "not x".  Step and status       *)
(* positions are 0-based in the code and 1-based here.                     *)
(***************************************************************************)
PlanIds == {"p1", "p2"}

Titles == {"A", "B"}

StepTexts == {"a", "b"}

\* An element of a step list that is not a string.
NotStr == "#7"

\* The four statuses mark_step accepts.
Statuses == {"not_started", "in_progress", "completed", "blocked"}

SeqsUpTo(S, n) == UNION {[1..k -> S] : k \in 0..n}

\* The arguments a command may come with.
PlanIdArgs == PlanIds \cup {""}

TitleArgs == Titles \cup {""}

StepsArgs == SeqsUpTo(StepTexts, MaxPlanSteps) \cup {<<NotStr>>}

\* step_index: <<>> for None, <<i>> for the integer i.
IndexArgs == {<<>>} \cup {<<i>> : i \in (0 - 1)..MaxPlanSteps}

StatusArgs == Statuses \cup {"", "done"}

NoteArgs == {"", "n"}

\* [x] * n
Repeat(x, n) == [i \in 1..n |-> x]

\* all(isinstance(step, str) for step in steps)
AllStr(steps) == \A i \in 1..Len(steps) : steps[i] /= NotStr

\* self.plans[plan_id] = plan
Put(ps, plan_id, plan) ==
    [q \in DOMAIN ps \cup {plan_id} |-> IF q = plan_id THEN plan ELSE ps[q]]

\* del self.plans[plan_id]
Del(ps, plan_id) == [q \in DOMAIN ps \ {plan_id} |-> ps[q]]

\* The position list[i] names in a list of n elements, Python's way.
PyIndex(i, n) == IF i < 0 THEN n + i + 1 ELSE i + 1

\* _create_plan: the plan it builds.
NewPlanCompleted(plan_id, title, steps) ==
    [plan_id |-> plan_id, title |-> title, steps |-> steps,
     step_statuses |-> Repeat("completed", Len(steps)),
     step_notes |-> Repeat("", Len(steps))]

NewPlan(plan_id, title, steps) ==
    [plan_id |-> plan_id, title |-> title, steps |-> steps,
     step_statuses |-> Repeat("not_started", Len(steps)),
     step_notes |-> Repeat("", Len(steps))]

\* _update_plan with steps: status and notes survive where the step is the
\* same at the same position, the rest starts anew.
WithStepsStaleNotes(plan, steps) ==
    [plan EXCEPT
        !.steps = steps,
        !.step_statuses = [i \in 1..Len(steps) |->
            IF i <= Len(plan.steps) /\ steps[i] = plan.steps[i]
            THEN plan.step_statuses[i] ELSE "not_started"]]

\* The variant that keeps status and notes by position alone.
WithStepsByPosition(plan, steps) ==
    [plan EXCEPT
        !.steps = steps,
        !.step_statuses = [i \in 1..Len(steps) |->
            IF i <= Len(plan.steps) THEN plan.step_statuses[i] ELSE "not_started"],
        !.step_notes = [i \in 1..Len(steps) |->
            IF i <= Len(plan.steps) THEN plan.step_notes[i] ELSE ""]]

WithSteps(plan, steps) ==
    [plan EXCEPT
        !.steps = steps,
        !.step_statuses = [i \in 1..Len(steps) |->
            IF i <= Len(plan.steps) /\ steps[i] = plan.steps[i]
            THEN plan.step_statuses[i] ELSE "not_started"],
        !.step_notes = [i \in 1..Len(steps) |->
            IF i <= Len(plan.steps) /\ steps[i] = plan.steps[i]
            THEN plan.step_notes[i] ELSE ""]]

\* _mark_step: step_index < 0 or step_index >= len(plan["steps"]) is refused.
IndexInRangeNoLowerCheck(step_index, plan) == step_index < Len(plan.steps)

IndexInRange(step_index, plan) ==
    ~(step_index < 0 \/ step_index >= Len(plan.steps))

\* _mark_step: the statuses it lets through.
ValidStatusAny(step_status) == TRUE

ValidStatus(step_status) == step_status \in Statuses

\* _mark_step: the plan with the status and the notes set where given.
Marked(plan, step_index, step_status, step_notes) ==
    LET k == PyIndex(step_index, Len(plan.steps))
    IN  [plan EXCEPT
            !.step_statuses[k] = IF step_status /= "" THEN step_status ELSE @,
            !.step_notes[k] = IF step_notes /= "" THEN step_notes ELSE @]

\* _get_plan, _mark_step: no plan_id means the active plan.
Target(plan_id) == IF plan_id = "" THEN current_plan_id ELSE plan_id

\* _format_plan, _list_plans: sum(1 for status in step_statuses if status == st)
CountStatus(plan, st) ==
    Cardinality({i \in 1..Len(plan.step_statuses) : plan.step_statuses[i] = st})

\* One more command has run: what it was, and how it ended.
Ran(cmd, plan_id, target, res) ==
    /\ planCmds < MaxPlanCmds
    /\ planCmds' = planCmds + 1
    /\ planCmd' = cmd
    /\ planArg' = plan_id
    /\ planTarget' = target
    /\ planRes' = res

\* execute(command="create", ...)
create_plan(plan_id, title, steps) ==
    LET res == IF plan_id = "" THEN "plan_id_required"
               ELSE IF plan_id \in DOMAIN plans THEN "already_exists"
               ELSE IF title = "" THEN "title_required"
               ELSE IF steps = <<>> \/ ~AllStr(steps) THEN "steps_invalid"
               ELSE "ok"
    IN  /\ IF res = "ok"
           THEN /\ plans' = Put(plans, plan_id, NewPlan(plan_id, title, steps))
                /\ current_plan_id' = plan_id
           ELSE UNCHANGED <<plans, current_plan_id>>
        /\ Ran("create", plan_id, IF res = "ok" THEN plan_id ELSE "", res)
        /\ UNCHANGED notPlan

\* execute(command="update", ...): the title is set before the steps are looked at.
update_plan(plan_id, title, steps) ==
    /\ IF plan_id = ""
       THEN /\ Ran("update", plan_id, "", "plan_id_required")
            /\ UNCHANGED plans
       ELSE IF plan_id \notin DOMAIN plans
       THEN /\ Ran("update", plan_id, "", "not_found")
            /\ UNCHANGED plans
       ELSE LET plan == plans[plan_id]
                titled == IF title /= "" THEN [plan EXCEPT !.title = title] ELSE plan
            IN  IF steps = <<>>
                THEN /\ plans' = Put(plans, plan_id, titled)
                     /\ Ran("update", plan_id, plan_id, "ok")
                ELSE IF ~AllStr(steps)
                THEN /\ plans' = Put(plans, plan_id, titled)
                     /\ Ran("update", plan_id, plan_id, "steps_invalid")
                ELSE /\ plans' = Put(plans, plan_id, WithSteps(titled, steps))
                     /\ Ran("update", plan_id, plan_id, "ok")
    /\ UNCHANGED current_plan_id
    /\ UNCHANGED notPlan

\* execute(command="list")
list_plans ==
    /\ Ran("list", "", "", "ok")
    /\ UNCHANGED <<plans, current_plan_id>>
    /\ UNCHANGED notPlan

\* execute(command="get", ...)
get_plan(plan_id) ==
    /\ IF plan_id = "" /\ current_plan_id = ""
       THEN Ran("get", plan_id, "", "no_active_plan")
       ELSE IF Target(plan_id) \notin DOMAIN plans
       THEN Ran("get", plan_id, Target(plan_id), "not_found")
       ELSE Ran("get", plan_id, Target(plan_id), "ok")
    /\ UNCHANGED <<plans, current_plan_id>>
    /\ UNCHANGED notPlan

\* execute(command="set_active", ...)
set_active_plan(plan_id) ==
    /\ IF plan_id = ""
       THEN /\ Ran("set_active", plan_id, "", "plan_id_required")
            /\ UNCHANGED current_plan_id
       ELSE IF plan_id \notin DOMAIN plans
       THEN /\ Ran("set_active", plan_id, "", "not_found")
            /\ UNCHANGED current_plan_id
       ELSE /\ current_plan_id' = plan_id
            /\ Ran("set_active", plan_id, plan_id, "ok")
    /\ UNCHANGED plans
    /\ UNCHANGED notPlan

\* execute(command="mark_step", ...)
mark_step(plan_id, step_index, step_status, step_notes) ==
    /\ IF plan_id = "" /\ current_plan_id = ""
       THEN /\ Ran("mark_step", plan_id, "", "no_active_plan")
            /\ UNCHANGED plans
       ELSE IF Target(plan_id) \notin DOMAIN plans
       THEN /\ Ran("mark_step", plan_id, Target(plan_id), "not_found")
            /\ UNCHANGED plans
       ELSE IF step_index = <<>>
       THEN /\ Ran("mark_step", plan_id, Target(plan_id), "index_required")
            /\ UNCHANGED plans
       ELSE IF ~IndexInRange(step_index[1], plans[Target(plan_id)])
       THEN /\ Ran("mark_step", plan_id, Target(plan_id), "invalid_index")
            /\ UNCHANGED plans
       ELSE IF step_status /= "" /\ ~ValidStatus(step_status)
       THEN /\ Ran("mark_step", plan_id, Target(plan_id), "invalid_status")
            /\ UNCHANGED plans
       ELSE /\ plans' = Put(plans, Target(plan_id),
                    Marked(plans[Target(plan_id)], step_index[1], step_status, step_notes))
            /\ Ran("mark_step", plan_id, Target(plan_id), "ok")
    /\ UNCHANGED current_plan_id
    /\ UNCHANGED notPlan

\* The variant that leaves the active plan id alone.
AfterDeleteKept(current, plan_id) == current

\* _delete_plan: the active plan id after plan_id was deleted.
AfterDelete(current, plan_id) == IF current = plan_id THEN "" ELSE current

\* execute(command="delete", ...)
delete_plan(plan_id) ==
    /\ IF plan_id = ""
       THEN /\ Ran("delete", plan_id, "", "plan_id_required")
            /\ UNCHANGED <<plans, current_plan_id>>
       ELSE IF plan_id \notin DOMAIN plans
       THEN /\ Ran("delete", plan_id, "", "not_found")
            /\ UNCHANGED <<plans, current_plan_id>>
       ELSE /\ plans' = Del(plans, plan_id)
            /\ current_plan_id' = AfterDelete(current_plan_id, plan_id)
            /\ Ran("delete", plan_id, plan_id, "ok")
    /\ UNCHANGED notPlan

PlanNext ==
    \/ \E plan_id \in PlanIdArgs, title \in TitleArgs, steps \in StepsArgs :
          create_plan(plan_id, title, steps)
    \/ \E plan_id \in PlanIdArgs, title \in TitleArgs, steps \in StepsArgs :
          update_plan(plan_id, title, steps)
    \/ list_plans
    \/ \E plan_id \in PlanIdArgs : get_plan(plan_id)
    \/ \E plan_id \in PlanIdArgs : set_active_plan(plan_id)
    \/ \E plan_id \in PlanIdArgs, step_index \in IndexArgs,
          step_status \in StatusArgs, step_notes \in NoteArgs :
          mark_step(plan_id, step_index, step_status, step_notes)
    \/ \E plan_id \in PlanIdArgs : delete_plan(plan_id)

(***************************************************************************)
(* The rendered plan.                                                      *)
(*                                                                         *)
(* _format_plan builds a text; the agent reads it back line by line.  A    *)
(* line is kept as what it is made of: its kind, the numbers it prints and *)
(* the strings it prints, in the order of the f-string.  The module is     *)
(* ASCII, so the arrow of "in progress" is written ">" and the check mark  *)
(* of "completed" is written "v".                                          *)
(***************************************************************************)
Line(kind, nums, strs) == [kind |-> kind, nums |-> nums, strs |-> strs]

\* A step text that holds the not-started marker itself, as a check-list
\* item copied into a plan does.
BoxText == "[ ] a"

\* The status markers a string holds ("x in line" for the two markers
\* the agent looks for).
MarkersIn(s) ==
    IF s = BoxText THEN {"[ ]"}
    ELSE IF s \in {"[ ]", "[>]"} THEN {s}
    ELSE {}

\* _format_plan: the symbol of a status, "[ ]" for anything unknown.
StatusSymbolAllOpen(status) == "[ ]"

StatusSymbol(status) ==
    CASE status = "not_started" -> "[ ]"
      [] status = "in_progress" -> "[>]"
      [] status = "completed" -> "[v]"
      [] status = "blocked" -> "[!]"
      [] OTHER -> "[ ]"

\* f"{percentage:.1f}" of completed / total * 100: the whole part and the
\* tenth, rounded to the nearest tenth (no tie arises for a total below 16).
Percent1f(completed, total) ==
    LET tenths == (completed * 2000 + total) \div (2 * total)
    IN  <<tenths \div 10, tenths % 10>>

\* _format_plan: the lines of steps i.. of the zip of steps, statuses and notes.
RECURSIVE StepLines(_, _)
StepLines(plan, i) ==
    IF \/ i > Len(plan.steps)
       \/ i > Len(plan.step_statuses)
       \/ i > Len(plan.step_notes)
    THEN <<>>
    ELSE <<Line("step", <<i - 1>>,
                <<StatusSymbol(plan.step_statuses[i]), plan.steps[i]>>)>>
         \o (IF plan.step_notes[i] /= ""
             THEN <<Line("notes", <<>>, <<"Notes:", plan.step_notes[i]>>)>>
             ELSE <<>>)
         \o StepLines(plan, i + 1)

\* _format_plan: the whole text, line by line.
format_plan(plan) ==
    LET total_steps == Len(plan.steps)
        completed == CountStatus(plan, "completed")
        in_progress == CountStatus(plan, "in_progress")
        blocked == CountStatus(plan, "blocked")
        not_started == CountStatus(plan, "not_started")
    IN  <<Line("plan", <<>>, <<plan.title, plan.plan_id>>),
          Line("rule", <<>>, <<>>),
          Line("blank", <<>>, <<>>),
          Line("progress",
               <<completed, total_steps>>
                   \o (IF total_steps > 0 THEN Percent1f(completed, total_steps)
                       ELSE <<0>>),
               <<"steps completed">>),
          Line("status", <<completed, in_progress, blocked, not_started>>, <<>>),
          Line("blank", <<>>, <<>>),
          Line("header", <<>>, <<"Steps:">>)>>
        \o StepLines(plan, 1)

(***************************************************************************)
(* The PlanningAgent.                                                      *)
(*                                                                         *)
(* The agent reaches its planning tool through the dispatcher              *)
(* (ToolCollection.execute), which hands back a result in every case: an   *)
(* error the tool raises comes back as a result whose output is None.      *)
(* The underlying think and act (ToolCallAgent) are the oracle's choice    *)
(* of calls and the execution of those calls.                              *)
(***************************************************************************)
\* f"plan_{int(time.time())}", the id the agent gives itself.
AgentPlanId == "plan_t"

\* The plan ids an oracle may put in a planning call.
OraclePlanIds == {AgentPlanId, "p1"}

\* The step lists an oracle may ask a plan to be created with.
OracleSteps == {<<"a">>, <<"a", "b">>, <<BoxText, "b">>}

\* The ids an oracle may give a tool call.
CallIds == {"c1", "c2"}

\* A text, or None.
NoText == [none |-> TRUE, lines |-> <<>>]

Text(lines) == [none |-> FALSE, lines |-> lines]

\* A key a tracker entry does not have.
NoKey == "<absent>"

\* A tool call: its id, its function name and, for the planning tool, its arguments.
Call(id, name, command, plan_id, step_index, step_status, step_notes) ==
    [id |-> id, name |-> name, command |-> command, plan_id |-> plan_id,
     step_index |-> step_index, step_status |-> step_status, step_notes |-> step_notes]

\* The calls an oracle may select: a command for the planning tool, a
\* command for the shell, or the end of the task.
OracleCalls ==
    {Call(id, "planning", "mark_step", "", <<i>>, st, nt) :
        id \in CallIds, i \in 0..(MaxPlanSteps - 1),
        st \in {"completed", "blocked"}, nt \in NoteArgs}
    \cup {Call(id, "planning", "delete", p, <<>>, "", "") :
            id \in CallIds, p \in OraclePlanIds}
    \cup {Call(id, nm, "", "", <<>>, "", "") : id \in CallIds, nm \in {"bash", TerminateName}}

\* What the execution of a call may hand back.
ActResults == {"out", "Error: failed"}

\* execute(command="create", ...) behind the dispatcher: the plans and the
\* active plan it leaves.
ToolCreate(ps, cur, plan_id, title, steps) ==
    IF \/ plan_id = ""
       \/ plan_id \in DOMAIN ps
       \/ title = ""
       \/ steps = <<>> \/ ~AllStr(steps)
    THEN [plans |-> ps, current |-> cur]
    ELSE [plans |-> Put(ps, plan_id, NewPlan(plan_id, title, steps)), current |-> plan_id]

\* execute(command="get", ...) behind the dispatcher: the output of the result.
ToolGet(ps, cur, plan_id) ==
    LET target == IF plan_id = "" THEN cur ELSE plan_id
    IN  IF plan_id = "" /\ cur = "" THEN NoText
        ELSE IF target \notin DOMAIN ps THEN NoText
        ELSE Text(format_plan(ps[target]))

\* execute(command="mark_step", ...) behind the dispatcher: the plans it leaves.
ToolMarkStep(ps, cur, plan_id, step_index, step_status, step_notes) ==
    LET target == IF plan_id = "" THEN cur ELSE plan_id
    IN  IF plan_id = "" /\ cur = "" THEN ps
        ELSE IF target \notin DOMAIN ps THEN ps
        ELSE IF step_index = <<>> THEN ps
        ELSE IF ~IndexInRange(step_index[1], ps[target]) THEN ps
        ELSE IF step_status /= "" /\ ~ValidStatus(step_status) THEN ps
        ELSE Put(ps, target, Marked(ps[target], step_index[1], step_status, step_notes))

\* execute(command="delete", ...) behind the dispatcher.
ToolDelete(ps, cur, plan_id) ==
    IF plan_id = "" \/ plan_id \notin DOMAIN ps
    THEN [plans |-> ps, current |-> cur]
    ELSE [plans |-> Del(ps, plan_id), current |-> IF cur = plan_id THEN "" ELSE cur]

\* The planning tool after one call of the oracle's was executed.
ToolExecute(ps, cur, call) ==
    IF call.name /= "planning" THEN [plans |-> ps, current |-> cur]
    ELSE IF call.command = "mark_step"
    THEN [plans |-> ToolMarkStep(ps, cur, call.plan_id, call.step_index,
                                 call.step_status, call.step_notes),
          current |-> cur]
    ELSE IF call.command = "delete" THEN ToolDelete(ps, cur, call.plan_id)
    ELSE [plans |-> ps, current |-> cur]

\* PlanningAgent.get_plan: the text of the active plan.
agent_get_plan(ps, cur) ==
    IF active_plan_id = ""
    THEN Text(<<Line("message", <<>>, <<"No active plan. Please create a plan first.">>)>>)
    ELSE ToolGet(ps, cur, active_plan_id)

\* line.strip() == "Steps:"
IsStepsHeader(line) == line.nums = <<>> /\ line.strs = <<"Steps:">>

\* "[ ]" in line or "[>]" in line
HasOpenMarker(line) ==
    \E k \in 1..Len(line.strs) : MarkersIn(line.strs[k]) \cap {"[ ]", "[>]"} /= {}

\* The least element of a non-empty set of numbers.
Least(S) == CHOOSE k \in S : \A j \in S : k <= j

\* _get_current_step_index, the body of its try: the position, counted from
\* the line after "Steps:", of the first line that holds an open marker;
\* <<>> when there is no header or no such line.  A plan that is None
\* raises on splitlines.
Scan(plan) ==
    IF plan.none THEN [raised |-> TRUE, index |-> <<>>]
    ELSE LET plan_lines == plan.lines
             heads == {k \in 1..Len(plan_lines) : IsStepsHeader(plan_lines[k])}
         IN  IF heads = {} THEN [raised |-> FALSE, index |-> <<>>]
             ELSE LET steps_index == Least(heads)
                      open == {k \in (steps_index + 1)..Len(plan_lines) :
                                  HasOpenMarker(plan_lines[k])}
                  IN  IF open = {} THEN [raised |-> FALSE, index |-> <<>>]
                      ELSE [raised |-> FALSE, index |-> <<Least(open) - steps_index - 1>>]

\* _get_current_step_index, its except: whatever the body raises is logged
\* and None is returned.
ScanCatchesNothing(plan) == Scan(plan)

ScanCaught(plan) == [raised |-> FALSE, index |-> Scan(plan).index]

\* _get_current_step_index: the index it returns and the plans it leaves
\* (the step found is marked in_progress on the way).
get_current_step_index(ps, cur) ==
    IF active_plan_id = "" THEN [raised |-> FALSE, index |-> <<>>, plans |-> ps]
    ELSE LET found == ScanCaught(agent_get_plan(ps, cur))
         IN  [raised |-> found.raised,
              index |-> found.index,
              plans |-> IF found.index = <<>> THEN ps
                        ELSE ToolMarkStep(ps, cur, active_plan_id, found.index,
                                          "in_progress", "")]

\* think: the tracker after the first selected call was looked at.
TrackedAnyName(tracker, calls, result, index) ==
    IF result /\ calls /= <<>> /\ index /= <<>>
    THEN Put(tracker, calls[1].id,
             [step_index |-> index[1], tool_name |-> calls[1].name,
              status |-> "pending", result |-> NoKey])
    ELSE tracker

TrackedAlone(tracker, calls, result, index) ==
    IF /\ result /\ calls /= <<>>
       /\ calls[1].name /= "planning"
       /\ calls[1].name \notin special_tool_names
       /\ index /= <<>>
    THEN Put(<<>>, calls[1].id,
             [step_index |-> index[1], tool_name |-> calls[1].name,
              status |-> "pending", result |-> NoKey])
    ELSE tracker

Tracked(tracker, calls, result, index) ==
    IF /\ result /\ calls /= <<>>
       /\ calls[1].name /= "planning"
       /\ calls[1].name \notin special_tool_names
       /\ index /= <<>>
    THEN Put(tracker, calls[1].id,
             [step_index |-> index[1], tool_name |-> calls[1].name,
              status |-> "pending", result |-> NoKey])
    ELSE tracker

\* act: the tracker after the first executed call was looked at.
Completed(tracker, calls, result) ==
    IF calls /= <<>> /\ calls[1].id \in DOMAIN tracker
    THEN [tracker EXCEPT ![calls[1].id].status = "completed",
                         ![calls[1].id].result = result]
    ELSE tracker

\* update_plan_status: the plans after the step of a tracked, completed call
\* was marked completed.
update_plan_status(ps, cur, tracker, id) ==
    IF active_plan_id = "" THEN ps
    ELSE IF id \notin DOMAIN tracker THEN ps
    ELSE IF tracker[id].status /= "completed" THEN ps
    ELSE ToolMarkStep(ps, cur, active_plan_id, <<tracker[id].step_index>>, "completed", "")

\* run(request): create_initial_plan asks the oracle for a plan and executes
\* the planning call of the answer, if it has one; the loop then starts.
AgentRun ==
    /\ apc = "new"
    /\ \E request \in BOOLEAN, planned \in BOOLEAN,
          plan_id \in OraclePlanIds, steps \in OracleSteps :
          LET after == IF request /\ planned
                       THEN ToolCreate(plans, current_plan_id, plan_id, "A", steps)
                       ELSE [plans |-> plans, current |-> current_plan_id]
          IN  /\ plans' = after.plans
              /\ current_plan_id' = after.current
              /\ created_id' = IF request /\ planned THEN plan_id ELSE ""
    /\ apc' = "ready"
    /\ aop' = "run"
    /\ UNCHANGED <<active_plan_id, current_step_index, step_execution_tracker, tool_calls,
                   plan_text, super_ret, agent_ret, agent_steps>>
    /\ UNCHANGED notAgent

\* think: the plan is read into the prompt, the current step is looked up
\* (and marked in_progress), the underlying think asks the oracle, and the
\* first selected call is tracked against the current step.
AgentThink ==
    /\ apc = "ready"
    /\ agent_steps < MaxAgentSteps
    /\ agent_steps' = agent_steps + 1
    /\ aop' = "think"
    /\ plan_text' = agent_get_plan(plans, current_plan_id)
    /\ LET found == get_current_step_index(plans, current_plan_id)
       IN  IF found.raised
           THEN /\ apc' = "raised"
                /\ agent_ret' = "raised"
                /\ super_ret' = "none"
                /\ UNCHANGED <<plans, current_step_index, step_execution_tracker,
                               tool_calls>>
           ELSE /\ current_step_index' = found.index
                /\ plans' = found.plans
                /\ \E raises \in BOOLEAN,
                      calls \in {<<>>} \cup {<<c>> : c \in OracleCalls} :
                      IF raises
                      THEN /\ apc' = "raised"
                           /\ agent_ret' = "raised"
                           /\ super_ret' = "raised"
                           /\ UNCHANGED <<step_execution_tracker, tool_calls>>
                      ELSE LET result == calls /= <<>>
                           IN  /\ tool_calls' = calls
                               /\ step_execution_tracker' =
                                      Tracked(step_execution_tracker, calls, result,
                                              found.index)
                               /\ super_ret' = IF result THEN "True" ELSE "False"
                               /\ agent_ret' = IF result THEN "True" ELSE "False"
                               /\ apc' = IF result THEN "thought" ELSE "ready"
    /\ UNCHANGED <<active_plan_id, current_plan_id, created_id>>
    /\ UNCHANGED notAgent

\* act: the underlying act executes the selected call; a tracked call is
\* then completed in the tracker and, unless it is a planning or a special
\* call, its step is marked completed in the active plan.
AgentAct ==
    /\ apc = "thought"
    /\ aop' = "act"
    /\ \E result \in ActResults :
          LET latest_tool_call == tool_calls[1]
              done == ToolExecute(plans, current_plan_id, latest_tool_call)
              tracker == Completed(step_execution_tracker, tool_calls, result)
          IN  /\ step_execution_tracker' = tracker
              /\ plans' =
                    IF /\ latest_tool_call.id \in DOMAIN step_execution_tracker
                       /\ latest_tool_call.name /= "planning"
                       /\ latest_tool_call.name \notin special_tool_names
                    THEN update_plan_status(done.plans, done.current, tracker,
                                            latest_tool_call.id)
                    ELSE done.plans
              /\ current_plan_id' = done.current
              /\ super_ret' = result
              /\ agent_ret' = result
              /\ apc' = IF latest_tool_call.name \in special_tool_names
                        THEN "done" ELSE "ready"
    /\ UNCHANGED <<active_plan_id, current_step_index, tool_calls, plan_text,
                   agent_steps, created_id>>
    /\ UNCHANGED notAgent

AgentNext ==
    \/ AgentRun
    \/ AgentThink
    \/ AgentAct

(***************************************************************************)
(* Manus.think.                                                            *)
(*                                                                         *)
(* The store is kept as far as think reads it: per message, the set of     *)
(* function names of its tool calls (empty for a message without calls).   *)
(***************************************************************************)
\* app/prompt/manus.py
NEXT_STEP_PROMPT == "next_step"

\* What BrowserContextHelper.format_next_step_prompt returns.
BrowserPrompt == "browser_next_step"

\* BrowserUseTool().name
BrowserToolName == "browser_use"

\* The tool calls an answer of the oracle may carry.
ManusAnswers == {{}, {BrowserToolName}, {"python_execute"}}

\* any(tc.function.name == BrowserUseTool().name ...) over messages[-3:]
browser_in_use(msgs) ==
    LET recent_messages == IF msgs /= <<>> THEN PySliceLast(msgs, 3) ELSE <<>>
    IN  \E k \in 1..Len(recent_messages) : BrowserToolName \in recent_messages[k]

\* think: the prompt is swapped for the browser's when the browser was used
\* lately, the underlying think runs (and stores the oracle's answer), and
\* the prompt is put back once that has returned.
ManusThink ==
    /\ manus_thinks < MaxManusThinks
    /\ manus_thinks' = manus_thinks + 1
    /\ manus_before' = next_step_prompt
    /\ LET original_prompt == next_step_prompt
           during == IF browser_in_use(manus_msgs) THEN BrowserPrompt
                     ELSE next_step_prompt
       IN  \E raises \in BOOLEAN, answer \in ManusAnswers :
              IF raises
              THEN /\ next_step_prompt' = during
                   /\ manus_out' = "raised"
                   /\ UNCHANGED manus_msgs
              ELSE /\ next_step_prompt' = original_prompt
                   /\ manus_out' = "returned"
                   /\ manus_msgs' = Append(manus_msgs, answer)
    /\ UNCHANGED notManus

\* A message without tool calls reaches the store: the result of an
\* executed call, or the next request.
ManusMessage ==
    /\ Len(manus_msgs) < MaxManusMsgs
    /\ manus_msgs' = Append(manus_msgs, {})
    /\ UNCHANGED <<next_step_prompt, manus_before, manus_out, manus_thinks>>
    /\ UNCHANGED notManus

ManusNext ==
    \/ ManusThink
    \/ ManusMessage

(***************************************************************************)
(* ToolResult.__add__ (app/tool/base.py).  A field of a result is None or  *)
(* a string; a string is the sequence of its characters, so that the empty *)
(* string and None are two values, as they are in Python.                  *)
(***************************************************************************)
None == [set |-> FALSE, str |-> <<>>]

Str(s) == [set |-> TRUE, str |-> s]

\* Python's truth value of a field: None and "" are both false.
Truthy(field) == field.set /\ field.str /= <<>>

OutputValues == {None, Str(<<>>), Str(<<"x">>), Str(<<"y">>)}

ErrorValues == {None, Str(<<>>), Str(<<"e">>)}

SystemValues == {None, Str(<<"s">>)}

ToolResult(output, error, system) ==
    [output |-> output, error |-> error, system |-> system]

ToolResults ==
    {ToolResult(o, e, s) : o \in OutputValues, e \in ErrorValues, s \in SystemValues}

\* combine_fields(field, other_field) with concatenate=True, the only way
\* __add__ calls it for these three fields.
combine_fields(field, other_field) ==
    IF Truthy(field) /\ Truthy(other_field)
    THEN Str(field.str \o other_field.str)
    ELSE IF Truthy(field) THEN field ELSE other_field

add(self, other) ==
    ToolResult(combine_fields(self.output, other.output),
               combine_fields(self.error, other.error),
               combine_fields(self.system, other.system))

\* a + b and b + c.
AddFirst ==
    /\ m_pc = "drawn"
    /\ m_first' = <<add(m_args[1], m_args[2]), add(m_args[2], m_args[3])>>
    /\ m_pc' = "first"
    /\ UNCHANGED <<m_args, m_second>>
    /\ UNCHANGED notMerge

\* (a + b) + c and a + (b + c).
AddSecond ==
    /\ m_pc = "first"
    /\ m_second' = <<add(m_first[1], m_args[3]), add(m_args[1], m_first[2])>>
    /\ m_pc' = "second"
    /\ UNCHANGED <<m_args, m_first>>
    /\ UNCHANGED notMerge

MergeNext == AddFirst \/ AddSecond

(***************************************************************************)
(* StrReplaceEditor (app/tool/str_replace_editor.py) on one absolute path  *)
(* that is not a directory.  A text is the sequence of its characters:     *)
(* "tab", "nl" and "sp" stand for the tab, the newline and the space.      *)
(***************************************************************************)
Absent == [exists |-> FALSE, text |-> <<>>]

File(text) == [exists |-> TRUE, text |-> text]

TabSize == 8

\* What the path holds before the editor is used.
InitialFiles ==
    {Absent, File(<<"a">>), File(<<"tab", "a">>), File(<<"a", "nl", "a">>)}

\* The arguments a command may come with.
FileTexts == {<<"a">>, <<"tab", "b">>}

OldStrs == {<<"a">>, <<"b">>}

\* new_str of str_replace: None is "" there.
NewStrs == {<<>>, <<"b">>}

InsertStrs == {<<"b">>, <<"b", "nl">>}

InsertLines == {0 - 1, 0, 1, 3}

Spaces(n) == [k \in 1..n |-> "sp"]

\* text[i..] with its tabs expanded, col being the column text[i] starts in.
RECURSIVE ExpandFrom(_, _, _)
ExpandFrom(text, i, col) ==
    IF i > Len(text) THEN <<>>
    ELSE IF text[i] = "tab"
         THEN Spaces(TabSize - (col % TabSize)) \o ExpandFrom(text, i + 1, 0)
         ELSE IF text[i] = "nl"
              THEN <<"nl">> \o ExpandFrom(text, i + 1, 0)
              ELSE <<text[i]>> \o ExpandFrom(text, i + 1, col + 1)

\* str.expandtabs()
expandtabs(text) == ExpandFrom(text, 1, 0)

MatchAt(text, sub, i) ==
    /\ i + Len(sub) - 1 <= Len(text)
    /\ SubSeq(text, i, i + Len(sub) - 1) = sub

\* text.count(sub) from position i on, sub not empty: occurrences that do not
\* overlap.
RECURSIVE CountFrom(_, _, _)
CountFrom(text, sub, i) ==
    IF i + Len(sub) - 1 > Len(text) THEN 0
    ELSE IF MatchAt(text, sub, i)
         THEN 1 + CountFrom(text, sub, i + Len(sub))
         ELSE CountFrom(text, sub, i + 1)

count(text, sub) == CountFrom(text, sub, 1)

\* text.replace(old, new) from position i on, old not empty.
RECURSIVE ReplaceFrom(_, _, _, _)
ReplaceFrom(text, old, new, i) ==
    IF i > Len(text) THEN <<>>
    ELSE IF MatchAt(text, old, i)
         THEN new \o ReplaceFrom(text, old, new, i + Len(old))
         ELSE <<text[i]>> \o ReplaceFrom(text, old, new, i + 1)

replace(text, old, new) == ReplaceFrom(text, old, new, 1)

\* text.split("\n"): the lines, one more than there are newlines.
RECURSIVE SplitFrom(_, _, _)
SplitFrom(text, i, line) ==
    IF i > Len(text) THEN <<line>>
    ELSE IF text[i] = "nl"
         THEN <<line>> \o SplitFrom(text, i + 1, <<>>)
         ELSE SplitFrom(text, i + 1, Append(line, text[i]))

split(text) == SplitFrom(text, 1, <<>>)

\* "\n".join(lines)
RECURSIVE join(_)
join(lines) ==
    IF lines = <<>> THEN <<>>
    ELSE IF Len(lines) = 1 THEN lines[1]
         ELSE lines[1] \o <<"nl">> \o join(Tail(lines))

\* One command was executed on the path.
Edited(cmd, res) ==
    /\ edit_count < MaxEdits
    /\ edit_count' = edit_count + 1
    /\ edit_cmd' = cmd
    /\ edit_res' = res
    /\ UNCHANGED notEdit

\* view: validate_path refuses a path that does not exist; the file stays.
view ==
    /\ Edited("view", IF file.exists THEN "ok" ELSE "ToolError")
    /\ UNCHANGED <<file, file_history, edit_stack>>

\* create: validate_path refuses a path that exists; else the text is written
\* and appended to the history.
create ==
    \E file_text \in FileTexts :
        IF file.exists
        THEN /\ Edited("create", "ToolError")
             /\ UNCHANGED <<file, file_history, edit_stack>>
        ELSE /\ Edited("create", "ok")
             /\ file' = File(file_text)
             /\ file_history' = Append(file_history, file_text)
             /\ edit_stack' = Append(edit_stack, file)

\* str_replace: the file and both strings have their tabs expanded; old_str
\* must occur exactly once; the text with the replacement is written and the
\* expanded text that was read is appended to the history.
str_replace ==
    \E old \in OldStrs, new \in NewStrs :
        LET file_content == expandtabs(file.text)
            old_str == expandtabs(old)
            new_str == expandtabs(new)
        IN  IF ~file.exists \/ count(file_content, old_str) /= 1
            THEN /\ Edited("str_replace", "ToolError")
                 /\ UNCHANGED <<file, file_history, edit_stack>>
            ELSE /\ Edited("str_replace", "ok")
                 /\ file' = File(replace(file_content, old_str, new_str))
                 /\ file_history' = Append(file_history, file_content)
                 /\ edit_stack' = Append(edit_stack, file)

\* insert: the file and new_str have their tabs expanded; the lines of
\* new_str go in after line insert_line; the joined lines are written and the
\* expanded text that was read is appended to the history.
insert ==
    \E insert_line \in InsertLines, new \in InsertStrs :
        LET file_text == expandtabs(file.text)
            new_str == expandtabs(new)
            file_text_lines == split(file_text)
            n_lines_file == Len(file_text_lines)
            new_str_lines == split(new_str)
        IN  IF ~file.exists \/ insert_line < 0 \/ insert_line > n_lines_file
            THEN /\ Edited("insert", "ToolError")
                 /\ UNCHANGED <<file, file_history, edit_stack>>
            ELSE /\ Edited("insert", "ok")
                 /\ file' = File(join(SubSeq(file_text_lines, 1, insert_line)
                                      \o new_str_lines
                                      \o SubSeq(file_text_lines, insert_line + 1,
                                                n_lines_file)))
                 /\ file_history' = Append(file_history, file_text)
                 /\ edit_stack' = Append(edit_stack, file)

\* undo_edit: with no history it raises; else the last entry of the history
\* is popped and written.
undo_edit ==
    IF ~file.exists \/ file_history = <<>>
    THEN /\ Edited("undo_edit", "ToolError")
         /\ UNCHANGED <<file, file_history, edit_stack>>
    ELSE /\ Edited("undo_edit", "ok")
         /\ file' = File(file_history[Len(file_history)])
         /\ file_history' = SubSeq(file_history, 1, Len(file_history) - 1)
         /\ edit_stack' = SubSeq(edit_stack, 1, Len(edit_stack) - 1)

EditNext ==
    \/ view
    \/ create
    \/ str_replace
    \/ insert
    \/ undo_edit

(***************************************************************************)
(* The specifications.                                                     *)
(***************************************************************************)
\* The message store alone: no run, no command session.
Init ==
    /\ messages = <<>>
    /\ max_messages \in 1..MaxBound
    /\ memOp = "init"
    /\ memArg = <<>>
    /\ log = <<>>
    /\ onlyAdd = TRUE
    /\ state = IDLE
    /\ current_step = 0
    /\ max_steps = 1
    /\ pc = "idle"
    /\ tool_call = "none"
    /\ step_result = "none"
    /\ iterations = 0
    /\ session = 0
    /\ sess = [s \in Sessions |-> NewSession]
    /\ nextSession = 1
    /\ nextCmd = 1
    /\ tpc = [t \in Tasks |-> "idle"]
    /\ tsess = [t \in Tasks |-> 0]
    /\ trun = [t \in Tasks |-> 0]
    /\ tgiven = [t \in Tasks |-> FALSE]
    /\ tcmd = [t \in Tasks |-> 0]
    /\ tres = [t \in Tasks |-> NoResult]
    /\ written = [c \in 1..MaxCmds |-> 0]
    /\ one = NewSession
    /\ made = FALSE
    /\ opc = "idle"
    /\ op = "none"
    /\ ret = NoResult
    /\ before = NewSession
    /\ raw = [out |-> <<>>, err |-> <<>>]
    /\ ncmd = 0
    /\ stopped = FALSE
    /\ swe_pc = "idle"
    /\ swe_out = "none"
    /\ swe_steps = 0
    /\ working_dir = InitialDir
    /\ plans = <<>>
    /\ current_plan_id = ""
    /\ planCmd = "none"
    /\ planArg = ""
    /\ planTarget = ""
    /\ planRes = "none"
    /\ planCmds = 0
    /\ active_plan_id = ""
    /\ current_step_index = <<>>
    /\ step_execution_tracker = <<>>
    /\ tool_calls = <<>>
    /\ apc = "new"
    /\ aop = "none"
    /\ plan_text = NoText
    /\ super_ret = "none"
    /\ agent_ret = "none"
    /\ agent_steps = 0
    /\ created_id = ""
    /\ next_step_prompt = NEXT_STEP_PROMPT
    /\ manus_msgs = <<>>
    /\ manus_before = NEXT_STEP_PROMPT
    /\ manus_out = "none"
    /\ manus_thinks = 0
    /\ m_args = <<>>
    /\ m_first = <<>>
    /\ m_second = <<>>
    /\ m_pc = "idle"
    /\ file = Absent
    /\ file_history = <<>>
    /\ edit_cmd = "none"
    /\ edit_res = "none"
    /\ edit_stack = <<>>
    /\ edit_count = 0
    /\ swe_prompt = NEXT_STEP_TEMPLATE
    /\ tool_dir = StartDir

Next ==
    \/ AddMessage
    \/ AddMessages
    \/ DirectAppend
    \/ Clear

Spec == Init /\ [][Next]_vars

\* One run of the step loop: an empty store, no command session.
LoopInit ==
    /\ messages = <<>>
    /\ max_messages = 1
    /\ memOp = "init"
    /\ memArg = <<>>
    /\ log = <<>>
    /\ onlyAdd = TRUE
    /\ state = IDLE
    /\ current_step = 0
    /\ max_steps \in 1..MaxSteps
    /\ pc = "idle"
    /\ tool_call = "none"
    /\ step_result = "none"
    /\ iterations = 0
    /\ session = 0
    /\ sess = [s \in Sessions |-> NewSession]
    /\ nextSession = 1
    /\ nextCmd = 1
    /\ tpc = [t \in Tasks |-> "idle"]
    /\ tsess = [t \in Tasks |-> 0]
    /\ trun = [t \in Tasks |-> 0]
    /\ tgiven = [t \in Tasks |-> FALSE]
    /\ tcmd = [t \in Tasks |-> 0]
    /\ tres = [t \in Tasks |-> NoResult]
    /\ written = [c \in 1..MaxCmds |-> 0]
    /\ one = NewSession
    /\ made = FALSE
    /\ opc = "idle"
    /\ op = "none"
    /\ ret = NoResult
    /\ before = NewSession
    /\ raw = [out |-> <<>>, err |-> <<>>]
    /\ ncmd = 0
    /\ stopped = FALSE
    /\ swe_pc = "idle"
    /\ swe_out = "none"
    /\ swe_steps = 0
    /\ working_dir = InitialDir
    /\ plans = <<>>
    /\ current_plan_id = ""
    /\ planCmd = "none"
    /\ planArg = ""
    /\ planTarget = ""
    /\ planRes = "none"
    /\ planCmds = 0
    /\ active_plan_id = ""
    /\ current_step_index = <<>>
    /\ step_execution_tracker = <<>>
    /\ tool_calls = <<>>
    /\ apc = "new"
    /\ aop = "none"
    /\ plan_text = NoText
    /\ super_ret = "none"
    /\ agent_ret = "none"
    /\ agent_steps = 0
    /\ created_id = ""
    /\ next_step_prompt = NEXT_STEP_PROMPT
    /\ manus_msgs = <<>>
    /\ manus_before = NEXT_STEP_PROMPT
    /\ manus_out = "none"
    /\ manus_thinks = 0
    /\ m_args = <<>>
    /\ m_first = <<>>
    /\ m_second = <<>>
    /\ m_pc = "idle"
    /\ file = Absent
    /\ file_history = <<>>
    /\ edit_cmd = "none"
    /\ edit_res = "none"
    /\ edit_stack = <<>>
    /\ edit_count = 0
    /\ swe_prompt = NEXT_STEP_TEMPLATE
    /\ tool_dir = StartDir

LoopSpec == LoopInit /\ [][LoopNext]_vars

\* One Bash tool: an empty store, no run.
BashInit ==
    /\ messages = <<>>
    /\ max_messages = 1
    /\ memOp = "init"
    /\ memArg = <<>>
    /\ log = <<>>
    /\ onlyAdd = TRUE
    /\ state = IDLE
    /\ current_step = 0
    /\ max_steps = 1
    /\ pc = "idle"
    /\ tool_call = "none"
    /\ step_result = "none"
    /\ iterations = 0
    /\ session = 0
    /\ sess = [s \in Sessions |-> NewSession]
    /\ nextSession = 1
    /\ nextCmd = 1
    /\ tpc = [t \in Tasks |-> "idle"]
    /\ tsess = [t \in Tasks |-> 0]
    /\ trun = [t \in Tasks |-> 0]
    /\ tgiven = [t \in Tasks |-> FALSE]
    /\ tcmd = [t \in Tasks |-> 0]
    /\ tres = [t \in Tasks |-> NoResult]
    /\ written = [c \in 1..MaxCmds |-> 0]
    /\ one = NewSession
    /\ made = FALSE
    /\ opc = "idle"
    /\ op = "none"
    /\ ret = NoResult
    /\ before = NewSession
    /\ raw = [out |-> <<>>, err |-> <<>>]
    /\ ncmd = 0
    /\ stopped = FALSE
    /\ swe_pc = "idle"
    /\ swe_out = "none"
    /\ swe_steps = 0
    /\ working_dir = InitialDir
    /\ plans = <<>>
    /\ current_plan_id = ""
    /\ planCmd = "none"
    /\ planArg = ""
    /\ planTarget = ""
    /\ planRes = "none"
    /\ planCmds = 0
    /\ active_plan_id = ""
    /\ current_step_index = <<>>
    /\ step_execution_tracker = <<>>
    /\ tool_calls = <<>>
    /\ apc = "new"
    /\ aop = "none"
    /\ plan_text = NoText
    /\ super_ret = "none"
    /\ agent_ret = "none"
    /\ agent_steps = 0
    /\ created_id = ""
    /\ next_step_prompt = NEXT_STEP_PROMPT
    /\ manus_msgs = <<>>
    /\ manus_before = NEXT_STEP_PROMPT
    /\ manus_out = "none"
    /\ manus_thinks = 0
    /\ m_args = <<>>
    /\ m_first = <<>>
    /\ m_second = <<>>
    /\ m_pc = "idle"
    /\ file = Absent
    /\ file_history = <<>>
    /\ edit_cmd = "none"
    /\ edit_res = "none"
    /\ edit_stack = <<>>
    /\ edit_count = 0
    /\ swe_prompt = NEXT_STEP_TEMPLATE
    /\ tool_dir = StartDir

BashSpec == BashInit /\ [][BashNext]_vars

\* One session, constructed and not started, in the hands of one caller.
SessInit ==
    /\ messages = <<>>
    /\ max_messages = 1
    /\ memOp = "init"
    /\ memArg = <<>>
    /\ log = <<>>
    /\ onlyAdd = TRUE
    /\ state = IDLE
    /\ current_step = 0
    /\ max_steps = 1
    /\ pc = "idle"
    /\ tool_call = "none"
    /\ step_result = "none"
    /\ iterations = 0
    /\ session = 0
    /\ sess = [s \in Sessions |-> NewSession]
    /\ nextSession = 1
    /\ nextCmd = 1
    /\ tpc = [t \in Tasks |-> "idle"]
    /\ tsess = [t \in Tasks |-> 0]
    /\ trun = [t \in Tasks |-> 0]
    /\ tgiven = [t \in Tasks |-> FALSE]
    /\ tcmd = [t \in Tasks |-> 0]
    /\ tres = [t \in Tasks |-> NoResult]
    /\ written = [c \in 1..MaxCmds |-> 0]
    /\ one = NewSession
    /\ made = TRUE
    /\ opc = "idle"
    /\ op = "none"
    /\ ret = NoResult
    /\ before = NewSession
    /\ raw = [out |-> <<>>, err |-> <<>>]
    /\ ncmd = 0
    /\ stopped = FALSE
    /\ swe_pc = "idle"
    /\ swe_out = "none"
    /\ swe_steps = 0
    /\ working_dir = InitialDir
    /\ plans = <<>>
    /\ current_plan_id = ""
    /\ planCmd = "none"
    /\ planArg = ""
    /\ planTarget = ""
    /\ planRes = "none"
    /\ planCmds = 0
    /\ active_plan_id = ""
    /\ current_step_index = <<>>
    /\ step_execution_tracker = <<>>
    /\ tool_calls = <<>>
    /\ apc = "new"
    /\ aop = "none"
    /\ plan_text = NoText
    /\ super_ret = "none"
    /\ agent_ret = "none"
    /\ agent_steps = 0
    /\ created_id = ""
    /\ next_step_prompt = NEXT_STEP_PROMPT
    /\ manus_msgs = <<>>
    /\ manus_before = NEXT_STEP_PROMPT
    /\ manus_out = "none"
    /\ manus_thinks = 0
    /\ m_args = <<>>
    /\ m_first = <<>>
    /\ m_second = <<>>
    /\ m_pc = "idle"
    /\ file = Absent
    /\ file_history = <<>>
    /\ edit_cmd = "none"
    /\ edit_res = "none"
    /\ edit_stack = <<>>
    /\ edit_count = 0
    /\ swe_prompt = NEXT_STEP_TEMPLATE
    /\ tool_dir = StartDir

SessSpec == SessInit /\ [][SessNext]_vars

\* One SWEAgent: its own Bash tool has no session yet.
SweInit ==
    /\ messages = <<>>
    /\ max_messages = 1
    /\ memOp = "init"
    /\ memArg = <<>>
    /\ log = <<>>
    /\ onlyAdd = TRUE
    /\ state = IDLE
    /\ current_step = 0
    /\ max_steps = 1
    /\ pc = "idle"
    /\ tool_call = "none"
    /\ step_result = "none"
    /\ iterations = 0
    /\ session = 0
    /\ sess = [s \in Sessions |-> NewSession]
    /\ nextSession = 1
    /\ nextCmd = 1
    /\ tpc = [t \in Tasks |-> "idle"]
    /\ tsess = [t \in Tasks |-> 0]
    /\ trun = [t \in Tasks |-> 0]
    /\ tgiven = [t \in Tasks |-> FALSE]
    /\ tcmd = [t \in Tasks |-> 0]
    /\ tres = [t \in Tasks |-> NoResult]
    /\ written = [c \in 1..MaxCmds |-> 0]
    /\ one = NewSession
    /\ made = FALSE
    /\ opc = "idle"
    /\ op = "none"
    /\ ret = NoResult
    /\ before = NewSession
    /\ raw = [out |-> <<>>, err |-> <<>>]
    /\ ncmd = 0
    /\ stopped = FALSE
    /\ swe_pc = "idle"
    /\ swe_out = "none"
    /\ swe_steps = 0
    /\ working_dir = InitialDir
    /\ plans = <<>>
    /\ current_plan_id = ""
    /\ planCmd = "none"
    /\ planArg = ""
    /\ planTarget = ""
    /\ planRes = "none"
    /\ planCmds = 0
    /\ active_plan_id = ""
    /\ current_step_index = <<>>
    /\ step_execution_tracker = <<>>
    /\ tool_calls = <<>>
    /\ apc = "new"
    /\ aop = "none"
    /\ plan_text = NoText
    /\ super_ret = "none"
    /\ agent_ret = "none"
    /\ agent_steps = 0
    /\ created_id = ""
    /\ next_step_prompt = NEXT_STEP_PROMPT
    /\ manus_msgs = <<>>
    /\ manus_before = NEXT_STEP_PROMPT
    /\ manus_out = "none"
    /\ manus_thinks = 0
    /\ m_args = <<>>
    /\ m_first = <<>>
    /\ m_second = <<>>
    /\ m_pc = "idle"
    /\ file = Absent
    /\ file_history = <<>>
    /\ edit_cmd = "none"
    /\ edit_res = "none"
    /\ edit_stack = <<>>
    /\ edit_count = 0
    /\ swe_prompt = NEXT_STEP_TEMPLATE
    /\ tool_dir = StartDir

SweSpec == SweInit /\ [][SweNext]_vars

\* One planning tool: no plan, no active plan.
PlanInit ==
    /\ messages = <<>>
    /\ max_messages = 1
    /\ memOp = "init"
    /\ memArg = <<>>
    /\ log = <<>>
    /\ onlyAdd = TRUE
    /\ state = IDLE
    /\ current_step = 0
    /\ max_steps = 1
    /\ pc = "idle"
    /\ tool_call = "none"
    /\ step_result = "none"
    /\ iterations = 0
    /\ session = 0
    /\ sess = [s \in Sessions |-> NewSession]
    /\ nextSession = 1
    /\ nextCmd = 1
    /\ tpc = [t \in Tasks |-> "idle"]
    /\ tsess = [t \in Tasks |-> 0]
    /\ trun = [t \in Tasks |-> 0]
    /\ tgiven = [t \in Tasks |-> FALSE]
    /\ tcmd = [t \in Tasks |-> 0]
    /\ tres = [t \in Tasks |-> NoResult]
    /\ written = [c \in 1..MaxCmds |-> 0]
    /\ one = NewSession
    /\ made = FALSE
    /\ opc = "idle"
    /\ op = "none"
    /\ ret = NoResult
    /\ before = NewSession
    /\ raw = [out |-> <<>>, err |-> <<>>]
    /\ ncmd = 0
    /\ stopped = FALSE
    /\ swe_pc = "idle"
    /\ swe_out = "none"
    /\ swe_steps = 0
    /\ working_dir = InitialDir
    /\ plans = <<>>
    /\ current_plan_id = ""
    /\ planCmd = "none"
    /\ planArg = ""
    /\ planTarget = ""
    /\ planRes = "none"
    /\ planCmds = 0
    /\ active_plan_id = ""
    /\ current_step_index = <<>>
    /\ step_execution_tracker = <<>>
    /\ tool_calls = <<>>
    /\ apc = "new"
    /\ aop = "none"
    /\ plan_text = NoText
    /\ super_ret = "none"
    /\ agent_ret = "none"
    /\ agent_steps = 0
    /\ created_id = ""
    /\ next_step_prompt = NEXT_STEP_PROMPT
    /\ manus_msgs = <<>>
    /\ manus_before = NEXT_STEP_PROMPT
    /\ manus_out = "none"
    /\ manus_thinks = 0
    /\ m_args = <<>>
    /\ m_first = <<>>
    /\ m_second = <<>>
    /\ m_pc = "idle"
    /\ file = Absent
    /\ file_history = <<>>
    /\ edit_cmd = "none"
    /\ edit_res = "none"
    /\ edit_stack = <<>>
    /\ edit_count = 0
    /\ swe_prompt = NEXT_STEP_TEMPLATE
    /\ tool_dir = StartDir

PlanSpec == PlanInit /\ [][PlanNext]_vars

\* One PlanningAgent, as constructed, over its own planning tool.
AgentInit ==
    /\ messages = <<>>
    /\ max_messages = 1
    /\ memOp = "init"
    /\ memArg = <<>>
    /\ log = <<>>
    /\ onlyAdd = TRUE
    /\ state = IDLE
    /\ current_step = 0
    /\ max_steps = 1
    /\ pc = "idle"
    /\ tool_call = "none"
    /\ step_result = "none"
    /\ iterations = 0
    /\ session = 0
    /\ sess = [s \in Sessions |-> NewSession]
    /\ nextSession = 1
    /\ nextCmd = 1
    /\ tpc = [t \in Tasks |-> "idle"]
    /\ tsess = [t \in Tasks |-> 0]
    /\ trun = [t \in Tasks |-> 0]
    /\ tgiven = [t \in Tasks |-> FALSE]
    /\ tcmd = [t \in Tasks |-> 0]
    /\ tres = [t \in Tasks |-> NoResult]
    /\ written = [c \in 1..MaxCmds |-> 0]
    /\ one = NewSession
    /\ made = FALSE
    /\ opc = "idle"
    /\ op = "none"
    /\ ret = NoResult
    /\ before = NewSession
    /\ raw = [out |-> <<>>, err |-> <<>>]
    /\ ncmd = 0
    /\ stopped = FALSE
    /\ swe_pc = "idle"
    /\ swe_out = "none"
    /\ swe_steps = 0
    /\ working_dir = InitialDir
    /\ plans = <<>>
    /\ current_plan_id = ""
    /\ planCmd = "none"
    /\ planArg = ""
    /\ planTarget = ""
    /\ planRes = "none"
    /\ planCmds = 0
    /\ active_plan_id = AgentPlanId
    /\ current_step_index = <<>>
    /\ step_execution_tracker = <<>>
    /\ tool_calls = <<>>
    /\ apc = "new"
    /\ aop = "none"
    /\ plan_text = NoText
    /\ super_ret = "none"
    /\ agent_ret = "none"
    /\ agent_steps = 0
    /\ created_id = ""
    /\ next_step_prompt = NEXT_STEP_PROMPT
    /\ manus_msgs = <<>>
    /\ manus_before = NEXT_STEP_PROMPT
    /\ manus_out = "none"
    /\ manus_thinks = 0
    /\ m_args = <<>>
    /\ m_first = <<>>
    /\ m_second = <<>>
    /\ m_pc = "idle"
    /\ file = Absent
    /\ file_history = <<>>
    /\ edit_cmd = "none"
    /\ edit_res = "none"
    /\ edit_stack = <<>>
    /\ edit_count = 0
    /\ swe_prompt = NEXT_STEP_TEMPLATE
    /\ tool_dir = StartDir

AgentSpec == AgentInit /\ [][AgentNext]_vars

\* One Manus agent, as constructed, with an empty store.
ManusInit ==
    /\ messages = <<>>
    /\ max_messages = 1
    /\ memOp = "init"
    /\ memArg = <<>>
    /\ log = <<>>
    /\ onlyAdd = TRUE
    /\ state = IDLE
    /\ current_step = 0
    /\ max_steps = 1
    /\ pc = "idle"
    /\ tool_call = "none"
    /\ step_result = "none"
    /\ iterations = 0
    /\ session = 0
    /\ sess = [s \in Sessions |-> NewSession]
    /\ nextSession = 1
    /\ nextCmd = 1
    /\ tpc = [t \in Tasks |-> "idle"]
    /\ tsess = [t \in Tasks |-> 0]
    /\ trun = [t \in Tasks |-> 0]
    /\ tgiven = [t \in Tasks |-> FALSE]
    /\ tcmd = [t \in Tasks |-> 0]
    /\ tres = [t \in Tasks |-> NoResult]
    /\ written = [c \in 1..MaxCmds |-> 0]
    /\ one = NewSession
    /\ made = FALSE
    /\ opc = "idle"
    /\ op = "none"
    /\ ret = NoResult
    /\ before = NewSession
    /\ raw = [out |-> <<>>, err |-> <<>>]
    /\ ncmd = 0
    /\ stopped = FALSE
    /\ swe_pc = "idle"
    /\ swe_out = "none"
    /\ swe_steps = 0
    /\ working_dir = InitialDir
    /\ plans = <<>>
    /\ current_plan_id = ""
    /\ planCmd = "none"
    /\ planArg = ""
    /\ planTarget = ""
    /\ planRes = "none"
    /\ planCmds = 0
    /\ active_plan_id = ""
    /\ current_step_index = <<>>
    /\ step_execution_tracker = <<>>
    /\ tool_calls = <<>>
    /\ apc = "new"
    /\ aop = "none"
    /\ plan_text = NoText
    /\ super_ret = "none"
    /\ agent_ret = "none"
    /\ agent_steps = 0
    /\ created_id = ""
    /\ next_step_prompt = NEXT_STEP_PROMPT
    /\ manus_msgs = <<>>
    /\ manus_before = NEXT_STEP_PROMPT
    /\ manus_out = "none"
    /\ manus_thinks = 0
    /\ m_args = <<>>
    /\ m_first = <<>>
    /\ m_second = <<>>
    /\ m_pc = "idle"
    /\ file = Absent
    /\ file_history = <<>>
    /\ edit_cmd = "none"
    /\ edit_res = "none"
    /\ edit_stack = <<>>
    /\ edit_count = 0
    /\ swe_prompt = NEXT_STEP_TEMPLATE
    /\ tool_dir = StartDir

ManusSpec == ManusInit /\ [][ManusNext]_vars

\* Three results to be added, drawn from the bounded set.
MergeInit ==
    /\ messages = <<>>
    /\ max_messages = 1
    /\ memOp = "init"
    /\ memArg = <<>>
    /\ log = <<>>
    /\ onlyAdd = TRUE
    /\ state = IDLE
    /\ current_step = 0
    /\ max_steps = 1
    /\ pc = "idle"
    /\ tool_call = "none"
    /\ step_result = "none"
    /\ iterations = 0
    /\ session = 0
    /\ sess = [s \in Sessions |-> NewSession]
    /\ nextSession = 1
    /\ nextCmd = 1
    /\ tpc = [t \in Tasks |-> "idle"]
    /\ tsess = [t \in Tasks |-> 0]
    /\ trun = [t \in Tasks |-> 0]
    /\ tgiven = [t \in Tasks |-> FALSE]
    /\ tcmd = [t \in Tasks |-> 0]
    /\ tres = [t \in Tasks |-> NoResult]
    /\ written = [c \in 1..MaxCmds |-> 0]
    /\ one = NewSession
    /\ made = FALSE
    /\ opc = "idle"
    /\ op = "none"
    /\ ret = NoResult
    /\ before = NewSession
    /\ raw = [out |-> <<>>, err |-> <<>>]
    /\ ncmd = 0
    /\ stopped = FALSE
    /\ swe_pc = "idle"
    /\ swe_out = "none"
    /\ swe_steps = 0
    /\ working_dir = InitialDir
    /\ plans = <<>>
    /\ current_plan_id = ""
    /\ planCmd = "none"
    /\ planArg = ""
    /\ planTarget = ""
    /\ planRes = "none"
    /\ planCmds = 0
    /\ active_plan_id = ""
    /\ current_step_index = <<>>
    /\ step_execution_tracker = <<>>
    /\ tool_calls = <<>>
    /\ apc = "new"
    /\ aop = "none"
    /\ plan_text = NoText
    /\ super_ret = "none"
    /\ agent_ret = "none"
    /\ agent_steps = 0
    /\ created_id = ""
    /\ next_step_prompt = NEXT_STEP_PROMPT
    /\ manus_msgs = <<>>
    /\ manus_before = NEXT_STEP_PROMPT
    /\ manus_out = "none"
    /\ manus_thinks = 0
    /\ m_args \in ToolResults \X ToolResults \X ToolResults
    /\ m_first = <<>>
    /\ m_second = <<>>
    /\ m_pc = "drawn"
    /\ file = Absent
    /\ file_history = <<>>
    /\ edit_cmd = "none"
    /\ edit_res = "none"
    /\ edit_stack = <<>>
    /\ edit_count = 0
    /\ swe_prompt = NEXT_STEP_TEMPLATE
    /\ tool_dir = StartDir

MergeSpec == MergeInit /\ [][MergeNext]_vars

\* One editor, as constructed, and one path that holds a file or nothing.
EditInit ==
    /\ messages = <<>>
    /\ max_messages = 1
    /\ memOp = "init"
    /\ memArg = <<>>
    /\ log = <<>>
    /\ onlyAdd = TRUE
    /\ state = IDLE
    /\ current_step = 0
    /\ max_steps = 1
    /\ pc = "idle"
    /\ tool_call = "none"
    /\ step_result = "none"
    /\ iterations = 0
    /\ session = 0
    /\ sess = [s \in Sessions |-> NewSession]
    /\ nextSession = 1
    /\ nextCmd = 1
    /\ tpc = [t \in Tasks |-> "idle"]
    /\ tsess = [t \in Tasks |-> 0]
    /\ trun = [t \in Tasks |-> 0]
    /\ tgiven = [t \in Tasks |-> FALSE]
    /\ tcmd = [t \in Tasks |-> 0]
    /\ tres = [t \in Tasks |-> NoResult]
    /\ written = [c \in 1..MaxCmds |-> 0]
    /\ one = NewSession
    /\ made = FALSE
    /\ opc = "idle"
    /\ op = "none"
    /\ ret = NoResult
    /\ before = NewSession
    /\ raw = [out |-> <<>>, err |-> <<>>]
    /\ ncmd = 0
    /\ stopped = FALSE
    /\ swe_pc = "idle"
    /\ swe_out = "none"
    /\ swe_steps = 0
    /\ working_dir = InitialDir
    /\ plans = <<>>
    /\ current_plan_id = ""
    /\ planCmd = "none"
    /\ planArg = ""
    /\ planTarget = ""
    /\ planRes = "none"
    /\ planCmds = 0
    /\ active_plan_id = ""
    /\ current_step_index = <<>>
    /\ step_execution_tracker = <<>>
    /\ tool_calls = <<>>
    /\ apc = "new"
    /\ aop = "none"
    /\ plan_text = NoText
    /\ super_ret = "none"
    /\ agent_ret = "none"
    /\ agent_steps = 0
    /\ created_id = ""
    /\ next_step_prompt = NEXT_STEP_PROMPT
    /\ manus_msgs = <<>>
    /\ manus_before = NEXT_STEP_PROMPT
    /\ manus_out = "none"
    /\ manus_thinks = 0
    /\ m_args = <<>>
    /\ m_first = <<>>
    /\ m_second = <<>>
    /\ m_pc = "idle"
    /\ file \in InitialFiles
    /\ file_history = <<>>
    /\ edit_cmd = "none"
    /\ edit_res = "none"
    /\ edit_stack = <<>>
    /\ edit_count = 0
    /\ swe_prompt = NEXT_STEP_TEMPLATE
    /\ tool_dir = StartDir

EditSpec == EditInit /\ [][EditNext]_vars

(***************************************************************************)
(* Claims about the message store.                                         *)
(***************************************************************************)

\* C1: after any sequence of Memory operations (add_message, add_messages,
\* clear and the agents' direct appends) the number of stored messages never
\* exceeds max_messages.
C1_MemoryBounded == Len(messages) <= max_messages

\* C2: appending N > max_messages messages one at a time with add_message to
\* an empty Memory leaves exactly the last max_messages of them, in their
\* original relative order.
C2_FifoEviction ==
    onlyAdd => messages = SubSeq(log, Max(1, Len(log) - max_messages + 1), Len(log))

C2_Witness ==
    /\ onlyAdd
    /\ memOp = "add_message"
    /\ Len(log) > max_messages + 1
    /\ max_messages > 1

\* C3: add_messages(ms) leaves the same message sequence as add_message
\* applied to each element of ms in order, the max_messages bound included.
C3_BatchEqualsEach ==
    [][memOp' = "add_messages" => messages' = AddEach(messages, memArg', max_messages)]_vars

(***************************************************************************)
(* Claims about the step loop.                                             *)
(***************************************************************************)

\* C4: for a single run the step loop never executes more than max_steps
\* think/act iterations, and current_step never exceeds max_steps, whatever
\* the oracle answers.
C4_StepBudget == current_step <= max_steps /\ iterations <= max_steps

C4_Witness ==
    /\ pc = "done"
    /\ max_steps > 1
    /\ current_step = max_steps
    /\ iterations = max_steps
    /\ step_result = "max_steps_reached"

\* C5: when a step executes a call to the terminate tool, the agent is
\* Finished at the next loop check, and from that check run returns without
\* another iteration, even if current_step < max_steps.
C5_TerminateEndsRun ==
    [][ /\ (pc = "act" /\ tool_call = TerminateName /\ step_result' = "ok")
            => (state' = FINISHED /\ pc' = "check")
        /\ (pc = "check" /\ tool_call = TerminateName /\ step_result = "ok")
            => (pc' = "done" /\ state' = FINISHED
                /\ iterations' = iterations /\ current_step' = current_step)
      ]_vars

C5_Witness ==
    /\ pc = "done"
    /\ state = FINISHED
    /\ tool_call = TerminateName
    /\ step_result = "ok"
    /\ current_step < max_steps

(***************************************************************************)
(* Claims about the command session.                                       *)
(***************************************************************************)

\* Task t calls run() on session s in this step.
RunBegins(t, s) ==
    /\ tpc[t] \in {"idle", "starting"}
    /\ tpc'[t] \in {"polling", "done"}
    /\ trun'[t] = s

\* The commands whose output a result carries.
ResultCmds(r) ==
    {r.out[i].cmd : i \in DOMAIN r.out} \cup {r.err[i].cmd : i \in DOMAIN r.err}

\* C6: once a run on a session has timed out, the session's timed-out flag
\* stays set for ever, and every later run on that session fails with an error
\* and writes no command to the process; a command runs again only on another
\* session.
C6_TimedOutIsSticky ==
    [][\A s \in Sessions : sess[s].timed_out =>
          /\ sess'[s].timed_out
          /\ Len(sess'[s].stdin) <= Len(sess[s].stdin)
          /\ \A t \in Tasks : RunBegins(t, s) =>
                /\ tpc'[t] = "done"
                /\ tres'[t].kind \in {"raised_timed_out", "error_exited"}
                /\ nextCmd' = nextCmd
      ]_vars

C6_Witness ==
    \E t \in Tasks :
        /\ tpc[t] = "done"
        /\ tres[t].kind = "raised_timed_out"
        /\ trun[t] = session
        /\ sess[session].timed_out
        /\ sess[session].proc = "alive"

\* C7: execute(restart=True) with no session, or with a session that is
\* started, timed out or whose process has exited, does not raise: it stops the
\* old session and leaves the tool holding a new one, which is started and not
\* timed out when the call returns, with empty buffers; and no result of a
\* session carries output of a command written to another session.
C7_RestartGivesFreshSession ==
    /\ [](\A t \in Tasks : tres[t].kind = "ok" =>
            \A c \in ResultCmds(tres[t]) : written[c] = trun[t])
    /\ [][\A t \in Tasks :
            /\ (tpc[t] = "idle" /\ tres'[t].kind = "raised_stop_not_started")
                => (session /= 0 /\ ~sess[session].started)
            /\ (tpc[t] = "idle" /\ tpc'[t] = "restarting")
                => /\ session' /= session
                   /\ session' = tsess'[t]
                   /\ session /= 0 => sess'[session].proc /= "alive"
            /\ (tpc[t] = "restarting" /\ tpc'[t] = "done")
                => /\ tres'[t].kind = "restarted"
                   /\ session' = tsess[t]
                   /\ sess'[session'].started
                   /\ ~sess'[session'].timed_out
                   /\ sess'[session'].proc = "alive"
                   /\ sess'[session'].out = <<>>
                   /\ sess'[session'].err = <<>>
         ]_vars

C7_Witness ==
    \E t \in Tasks : \E old \in Sessions :
        /\ tpc[t] = "done"
        /\ tres[t].kind = "ok"
        /\ trun[t] = session
        /\ old < session
        /\ sess[old].timed_out
        /\ sess[old].out /= <<>>
        /\ sess[old].err /= <<>>

\* C8: at most one run is in flight per command session at any time, and no
\* request's result contains output produced by another request's command.
C8_OneRunInFlight ==
    /\ \A s \in Sessions :
          Cardinality({t \in Tasks : tpc[t] = "polling" /\ trun[t] = s}) <= 1
    /\ \A t \in Tasks : tres[t].kind = "ok" => ResultCmds(tres[t]) \subseteq {tcmd[t]}

\* C9: a Bash tool owns at most one live session process at any time, under
\* every interleaving of execute calls: only the tool's current session can
\* have a live process.
C9_OneLiveProcess ==
    /\ Cardinality({s \in Sessions : sess[s].proc = "alive"}) <= 1
    /\ \A s \in Sessions : sess[s].proc = "alive" => s = session

C9_Witness ==
    \E t, u \in Tasks :
        /\ tpc[t] = "polling"
        /\ trun[t] /= session
        /\ tpc[u] = "done"
        /\ tres[u].kind = "restarted"
        /\ sess[session].proc = "alive"

\* C10: after a command has timed out, an execute(command) without
\* restart=True runs on a fresh session that the tool created itself.
C10_ToolRecreatesAfterTimeout ==
    [][\A t \in Tasks :
          (/\ tpc[t] = "idle"
           /\ session /= 0
           /\ sess[session].timed_out
           /\ trun'[t] /= 0)
          => (/\ trun'[t] /= session
              /\ ~sess'[trun'[t]].timed_out
              /\ tpc'[t] = "polling")
      ]_vars

(***************************************************************************)
(* Claims about tool errors in a step, and about one command session.      *)
(***************************************************************************)
\* C11: no error raised by a tool's execute during a step leaves the step; here:
\* no step of the SWEAgent ends by raising what execute("pwd") raised in think.
C11_NoToolErrorLeavesStep == swe_out /= "raised"

\* C12: start() on a session that has started spawns nothing: the process
\* handle, the state of the process, the flags and the pipes stay as they were.
C12_StartIdempotent == [][(SessStart /\ one.started) => one' = one]_vars

C12_Witness ==
    /\ op = "start"
    /\ before.started
    /\ before.proc = "dead"
    /\ one = before

\* C13 as stated: stop() returns without raising on any session, and changes
\* the process only when it was alive.
C13_StopSafeOnAnySession ==
    [][SessStop => /\ ret'.kind = "returned"
                   /\ one'.proc /= one.proc => one.proc = "alive"]_vars

\* C13: on a session that has started, stop() returns without raising; it turns
\* an alive process into a terminated one and changes nothing else, so that a
\* stop() after the process is gone, a second stop() included, changes nothing.
C13_StopSafeOnceStarted ==
    [][(SessStop /\ one.started) =>
          /\ ret'.kind = "returned"
          /\ one'.proc = (IF one.proc = "alive" THEN "dead" ELSE one.proc)
          /\ one' = [one EXCEPT !.proc = one'.proc]]_vars

C13_Witness ==
    /\ op = "stop"
    /\ ret.kind = "returned"
    /\ stopped
    /\ before.proc = "reaped"
    /\ one.proc = "reaped"

\* What run hands back when it refuses a command.
RefusedKinds == RaiseKinds \cup {"error_exited"}

\* C14: once stop() has returned on a started session, every run(command) is
\* refused with an error and writes nothing to the process's input, whether or
\* not the exit of the process has been observed.
C14_StoppedSessionRefusesRun ==
    [][(SessRun /\ stopped) =>
          /\ ret'.kind \in RefusedKinds
          /\ one'.stdin = one.stdin]_vars

\* C15 as stated: on the sentinel, run returns exactly what precedes it in the
\* output, the error buffer alongside, and leaves both buffers empty.
C15_ReturnsAllBeforeSentinel ==
    [][SessPollFound =>
          /\ ret'.out = SubSeq(one.out, 1, FirstSentinel(one.out) - 1)
          /\ ret'.err = one.err
          /\ one'.out = <<>>
          /\ one'.err = <<>>]_vars

\* got is full, less the newline full ends in if it ends in one.
LessLastNewline(full, got) ==
    IF full /= <<>> /\ full[Len(full)].kind = "nl"
    THEN got = SubSeq(full, 1, Len(full) - 1)
    ELSE got = full

\* C15: on the sentinel, run returns what precedes it in the output and the
\* error buffer alongside, each less one trailing newline, and leaves both
\* buffers empty.
C15_ReturnsBeforeSentinelLessNewline ==
    [][SessPollFound =>
          /\ LessLastNewline(SubSeq(one.out, 1, FirstSentinel(one.out) - 1), ret'.out)
          /\ LessLastNewline(one.err, ret'.err)
          /\ one'.out = <<>>
          /\ one'.err = <<>>]_vars

C15_Witness ==
    /\ op = "run"
    /\ opc = "idle"
    /\ ret.kind = "ok"
    /\ Len(raw.out) = 4
    /\ Len(ret.out) = 1
    /\ Len(raw.err) = 2
    /\ Len(ret.err) = 1
    /\ one.out = <<>>
    /\ one.err = <<>>

C17_ListsAligned ==
    \A p \in DOMAIN plans :
        /\ Len(plans[p].steps) = Len(plans[p].step_statuses)
        /\ Len(plans[p].step_statuses) = Len(plans[p].step_notes)

C17_Witness ==
    /\ planCmd = "update"
    /\ planRes = "ok"
    /\ planCmds = 3
    /\ Len(plans[planTarget].steps) = 2
    /\ plans[planTarget].step_statuses = <<"completed", "not_started">>
    /\ plans[planTarget].step_notes = <<"n", "">>

\* C18: in every stored plan the numbers of completed, in_progress, blocked and
\* not_started steps add up to the number of steps.
C18_StatusCountsAddUp ==
    \A p \in DOMAIN plans :
        CountStatus(plans[p], "completed") + CountStatus(plans[p], "in_progress")
            + CountStatus(plans[p], "blocked") + CountStatus(plans[p], "not_started")
        = Len(plans[p].steps)

C18_Witness ==
    /\ planCmd = "mark_step"
    /\ planRes = "ok"
    /\ planTarget \in DOMAIN plans
    /\ Len(plans[planTarget].steps) = 2
    /\ CountStatus(plans[planTarget], "blocked") = 1
    /\ CountStatus(plans[planTarget], "in_progress") = 1

\* C19: mark_step on a stored plan with a step_index below 0 or at least
\* len(steps) fails, and leaves every plan and the active plan id as they were.
C19_MarkStepOutOfRangeFails ==
    [][\A i \in (0 - 1)..MaxPlanSteps, st \in StatusArgs, n \in NoteArgs :
          ( /\ planCmd' = "mark_step"
            /\ Target(planArg') \in DOMAIN plans
            /\ (i < 0 \/ i >= Len(plans[Target(planArg')].steps))
            /\ mark_step(planArg', <<i>>, st, n) )
          => ( /\ planRes' /= "ok"
               /\ plans' = plans
               /\ current_plan_id' = current_plan_id )]_vars

C19_Witness ==
    /\ planCmd = "mark_step"
    /\ planRes = "invalid_index"
    /\ DOMAIN plans = PlanIds
    /\ current_plan_id = "p2"
    /\ planTarget = "p1"

\* C20: after a successful create(p) the active plan is p and every step of p
\* is not_started with empty notes; a get or a mark_step without plan_id that
\* comes next is resolved to p, finds it, and leaves every other plan alone.
C20_CreateActivates ==
    /\ [](planCmd = "create" /\ planRes = "ok" =>
            /\ current_plan_id = planArg
            /\ planArg \in DOMAIN plans
            /\ plans[planArg].step_statuses =
                   [i \in 1..Len(plans[planArg].steps) |-> "not_started"]
            /\ plans[planArg].step_notes =
                   [i \in 1..Len(plans[planArg].steps) |-> ""])
    /\ [][( /\ planCmd = "create"
            /\ planRes = "ok"
            /\ planCmds' = planCmds + 1
            /\ planCmd' \in {"get", "mark_step"}
            /\ planArg' = "" )
          => ( /\ planTarget' = planArg
               /\ planRes' \notin {"no_active_plan", "not_found"}
               /\ DOMAIN plans' = DOMAIN plans
               /\ \A q \in DOMAIN plans \ {planArg} : plans'[q] = plans[q] )]_vars

C20_Witness ==
    /\ planCmd = "mark_step"
    /\ planArg = ""
    /\ planRes = "ok"
    /\ planCmds = 3
    /\ planTarget = "p2"
    /\ DOMAIN plans = PlanIds
    /\ plans["p2"].step_statuses[1] = "completed"
    /\ plans["p1"].step_statuses = [i \in 1..Len(plans["p1"].steps) |-> "not_started"]

(***************************************************************************)
(* Claims about the rendered plan and the PlanningAgent.                   *)
(***************************************************************************)

\* The positions of the step lines of a text.
StepLinesAt(lines) == {k \in 1..Len(lines) : lines[k].kind = "step"}

\* C21: rendering a plan reports the stored state exactly.  Whenever a think
\* has read the text of an existing active plan, the text has one progress
\* line giving completed/total and the percentage to one decimal, and one
\* line per step, in step order, with the step's 0-based index, the symbol
\* of its status ([ ], [>], [v], [!]) and its text; a step line is followed
\* by a Notes line, carrying the notes, exactly when the notes are non-empty.
C21_RenderReportsPlan ==
    [][(aop' = "think" /\ agent_steps' /= agent_steps /\ active_plan_id \in DOMAIN plans)
       => LET plan == plans[active_plan_id]
              lines == plan_text'.lines
              n == Len(plan.steps)
              done == Cardinality({i \in 1..n : plan.step_statuses[i] = "completed"})
              at == StepLinesAt(lines)
          IN  /\ ~plan_text'.none
              /\ \E k \in 1..Len(lines) :
                    /\ lines[k].kind = "progress"
                    /\ \A j \in 1..Len(lines) : lines[j].kind = "progress" => j = k
                    /\ Len(lines[k].nums) = 4
                    /\ lines[k].nums[1] = done
                    /\ lines[k].nums[2] = n
                    /\ lines[k].nums[4] \in 0..9
                    /\ LET tenths == 10 * lines[k].nums[3] + lines[k].nums[4]
                       IN  /\ 2 * (1000 * done - n * tenths) <= n
                           /\ 2 * (n * tenths - 1000 * done) <= n
              /\ Cardinality(at) = n
              /\ \A i \in 1..n : \E k \in at :
                    /\ lines[k].nums = <<i - 1>>
                    /\ Cardinality({j \in at : j < k}) = i - 1
                    /\ lines[k].strs[2] = plan.steps[i]
                    /\ plan.step_statuses[i] = "not_started" => lines[k].strs[1] = "[ ]"
                    /\ plan.step_statuses[i] = "in_progress" => lines[k].strs[1] = "[>]"
                    /\ plan.step_statuses[i] = "completed" => lines[k].strs[1] = "[v]"
                    /\ plan.step_statuses[i] = "blocked" => lines[k].strs[1] = "[!]"
                    /\ (plan.step_notes[i] /= "")
                         <=> (k < Len(lines) /\ lines[k + 1].kind = "notes")
                    /\ plan.step_notes[i] /= ""
                         => lines[k + 1].strs = <<"Notes:", plan.step_notes[i]>>
              /\ \A k \in 1..Len(lines) :
                    lines[k].kind = "notes" => k > 1 /\ lines[k - 1].kind = "step"
      ]_vars

\* The example of the claim: steps [a, b] with step 0 completed were
\* rendered as 1/2 (50.0%) and "0. [v] a".
C21_Witness ==
    /\ aop = "think"
    /\ ~plan_text.none
    /\ \E k \in 1..Len(plan_text.lines) :
          /\ plan_text.lines[k].kind = "progress"
          /\ plan_text.lines[k].nums = <<1, 2, 50, 0>>
    /\ \E k \in 1..Len(plan_text.lines) :
          plan_text.lines[k] = Line("step", <<0>>, <<"[v]", "a">>)
    /\ \E k \in 1..Len(plan_text.lines) : plan_text.lines[k].kind = "notes"

\* C22: when the active plan is deleted, the agent's active plan id is
\* cleared: a step that removes the plan active_plan_id names from the
\* planning tool leaves active_plan_id unset.
C22_DeleteClearsActiveId ==
    [][(active_plan_id \in DOMAIN plans /\ active_plan_id \notin DOMAIN plans')
       => active_plan_id' = ""]_vars

\* A think has looked up the current step: the operation, with the plans
\* and the index as it found and left them.
Looked == aop' = "think" /\ agent_steps' = agent_steps + 1

\* The positions (1-based) of the steps of a plan that are not_started or in_progress.
OpenSteps(plan) ==
    {i \in 1..Len(plan.steps) : plan.step_statuses[i] \in {"not_started", "in_progress"}}

\* C23: before each think, for every active plan, current_step_index becomes
\* the 0-based position of the first step whose status is not_started or
\* in_progress, and exactly that step is marked in_progress.
C23_CurrentStepIsFirstOpen ==
    [][(/\ Looked
        /\ active_plan_id \in DOMAIN plans
        /\ OpenSteps(plans[active_plan_id]) /= {})
       => LET plan == plans[active_plan_id]
              first == Least(OpenSteps(plan))
          IN  /\ current_step_index' = <<first - 1>>
              /\ active_plan_id \in DOMAIN plans'
              /\ plans'[active_plan_id] =
                    [plan EXCEPT !.step_statuses[first] = "in_progress"]
      ]_vars

\* C24: when the rendered plan has no "Steps:" header (the active plan id
\* names no existing plan) or no step is not_started or in_progress, the
\* lookup yields None, the think goes on to the oracle, and no plan changes.
C24_NoOpenStepYieldsNone ==
    [][(/\ Looked
        /\ \/ active_plan_id \notin DOMAIN plans
           \/ OpenSteps(plans[active_plan_id]) = {})
       => /\ current_step_index' = <<>>
          /\ plans' = plans
          /\ super_ret' /= "none"
      ]_vars

\* C25: after a think that selects a tool call whose name is neither
\* "planning" nor a special tool while current_step_index is set, the
\* tracker holds an entry for that call id with that step index, the tool
\* name and status pending; when the selected call is a planning or special
\* tool, or current_step_index is None, or no call is selected, the tracker
\* is as it was.
C25_ThinkTracksCall ==
    [][(Looked /\ super_ret' \in {"True", "False"})
       => IF /\ tool_calls' /= <<>>
             /\ tool_calls'[1].name /= "planning"
             /\ tool_calls'[1].name \notin special_tool_names
             /\ current_step_index' /= <<>>
          THEN /\ tool_calls'[1].id \in DOMAIN step_execution_tracker'
               /\ step_execution_tracker'[tool_calls'[1].id].step_index
                      = current_step_index'[1]
               /\ step_execution_tracker'[tool_calls'[1].id].tool_name
                      = tool_calls'[1].name
               /\ step_execution_tracker'[tool_calls'[1].id].status = "pending"
          ELSE step_execution_tracker' = step_execution_tracker
      ]_vars

\* A think has just tracked a shell call against the current step.
C25_Witness ==
    /\ aop = "think"
    /\ apc = "thought"
    /\ tool_calls[1].name = "bash"
    /\ current_step_index /= <<>>
    /\ tool_calls[1].id \in DOMAIN step_execution_tracker
    /\ step_execution_tracker[tool_calls[1].id].status = "pending"

\* An act has run: the operation, with the tracker and the plans as it
\* found and left them.
Acted == apc = "thought" /\ aop' = "act"

\* C26: after act executes a tracked tool call, its tracker entry has status
\* completed and stores the result, and the plan step at the entry's
\* step_index is marked completed in the active plan; a call that is not
\* tracked causes no plan mutation beyond what the call itself does.
C26_ActCompletesTrackedStep ==
    [][Acted
       => LET id == tool_calls[1].id
          IN  IF id \in DOMAIN step_execution_tracker
              THEN /\ step_execution_tracker'[id].status = "completed"
                   /\ step_execution_tracker'[id].result = super_ret'
                   /\ step_execution_tracker[id].status = "pending"
                        => /\ active_plan_id \in DOMAIN plans'
                           /\ IndexInRange(step_execution_tracker'[id].step_index,
                                           plans'[active_plan_id])
                           /\ plans'[active_plan_id].step_statuses[
                                  step_execution_tracker'[id].step_index + 1] = "completed"
              ELSE plans' = ToolExecute(plans, current_plan_id, tool_calls[1]).plans
      ]_vars

\* C27: plan-tracking failures never propagate.  Whatever the active plan id
\* names, whatever step index an entry holds and whether or not the call is
\* tracked, think and act return what the underlying think and act returned,
\* and raise only when the underlying call raised.
C27_TrackingNeverPropagates ==
    [][(Looked \/ Acted)
       => /\ agent_ret' = super_ret'
          /\ super_ret' /= "none"
          /\ apc' = "raised" <=> super_ret' = "raised"
      ]_vars

\* A think has returned the oracle's choice although the active plan id
\* names no plan.
C27_Witness ==
    /\ aop = "think"
    /\ active_plan_id \notin DOMAIN plans
    /\ plan_text.none
    /\ agent_ret = "True"
    /\ apc = "thought"

\* C28: the key set of the tracker only grows: no think or act removes an
\* entry, and the entries of other calls than the one just selected or
\* executed stay as they are.
C28_TrackerOnlyGrows ==
    [][/\ DOMAIN step_execution_tracker \subseteq DOMAIN step_execution_tracker'
       /\ \A id \in DOMAIN step_execution_tracker :
             step_execution_tracker'[id] /= step_execution_tracker[id]
                => /\ tool_calls' /= <<>>
                   /\ tool_calls'[1].id = id
                   /\ step_execution_tracker'[id].status \in {"pending", "completed"}
      ]_vars

\* A second call has been tracked while the entry of the first, completed,
\* is still there.
C28_Witness ==
    /\ aop = "think"
    /\ \E id1, id2 \in DOMAIN step_execution_tracker :
          /\ id1 /= id2
          /\ step_execution_tracker[id1].status = "completed"
          /\ step_execution_tracker[id2].status = "pending"

\* C29: after run(request) has created its initial plan, the created plan
\* is the active one: active_plan_id is the id of the plan the oracle's
\* planning call created, and so is the planning tool's current plan id.
C29_CreatedPlanIsActive ==
    (aop = "run" /\ created_id /= "")
        => /\ created_id \in DOMAIN plans
           /\ active_plan_id = created_id
           /\ current_plan_id = created_id

\* C30: Manus.think restores the prompt it mutates regardless of outcome:
\* after the call, returned or raised, next_step_prompt is what it was
\* before the call.
C30_PromptRestored ==
    manus_out \in {"returned", "raised"} => next_step_prompt = manus_before

(***************************************************************************)
(* Further claims: the step without a call, merged results, the            *)
(* SWEAgent's directory, the tracker and failed calls, the planning tool's *)
(* updates and failures, runs in sequence, and the editor's undo.          *)
(***************************************************************************)

\* C31: in an iteration where think yields no tool call, act is not invoked
\* (the step goes straight back to the loop check, and act only ever runs
\* with a selected call), the step result is the "no action needed" text,
\* and the iteration has advanced current_step by one like any other: at
\* every loop check, in act and at the end, current_step is the number of
\* thinks made.
C31_NoCallSkipsAct ==
    /\ [](pc \in {"check", "act", "done"} => current_step = iterations)
    /\ [][(pc = "think" /\ pc' /= "done" /\ tool_call' = "none")
          => /\ pc' = "check"
             /\ step_result' = "no_action_needed"
             /\ current_step' = current_step]_vars
    /\ [][pc' = "act" => tool_call' /= "none"]_vars

\* A second iteration has ended without a call.
C31_Witness ==
    /\ pc = "check"
    /\ tool_call = "none"
    /\ step_result = "no_action_needed"
    /\ current_step = 2
    /\ iterations = 2

\* What the merge of one field is to be: the left value followed by the right
\* one when both sides set it, else the one that is set, else none.
Merged(left, right) ==
    IF left.set /\ right.set THEN Str(left.str \o right.str)
    ELSE IF left.set THEN left
    ELSE right

\* C32: merging two results gives, for each of output, error and system, the
\* left value followed by the right value when both sides set the field, and
\* the one set value (or none) otherwise; so the result with no field set is
\* an identity on either side, and merging three results gives the same
\* result whichever two are merged first.
C32_MergeConcatenatesFields ==
    /\ m_pc \in {"first", "second"} =>
        /\ m_first[1].output = Merged(m_args[1].output, m_args[2].output)
        /\ m_first[1].error = Merged(m_args[1].error, m_args[2].error)
        /\ m_first[1].system = Merged(m_args[1].system, m_args[2].system)
        /\ (m_args[1] = ToolResult(None, None, None) => m_first[1] = m_args[2])
        /\ (m_args[2] = ToolResult(None, None, None) => m_first[1] = m_args[1])
    /\ (m_pc = "second" => m_second[1] = m_second[2])

\* C33: whenever the SWEAgent is about to think, with pwd having returned
\* its output and no error and next_step_prompt holding a directory, that
\* directory is the directory of the shell in which the calls of the
\* agent's bash tool run: also after a call of the bash tool changed
\* directory, and on the second and later steps.
C33_PromptNamesToolShellDir ==
    (/\ swe_pc = "think"
     /\ working_dir.err = <<>>
     /\ working_dir.out /= <<>>
     /\ swe_prompt \in Dirs)
        => swe_prompt = tool_dir

\* C34: an act whose tracked call produced an error result does not mark
\* the call's step completed: a step of the active plan that was not
\* completed before such an act is not completed after it.
C34_FailedCallLeavesStepOpen ==
    [][(/\ Acted
        /\ tool_calls[1].id \in DOMAIN step_execution_tracker
        /\ super_ret' = "Error: failed"
        /\ active_plan_id \in DOMAIN plans
        /\ IndexInRange(step_execution_tracker[tool_calls[1].id].step_index,
                        plans[active_plan_id])
        /\ plans[active_plan_id].step_statuses[
               step_execution_tracker[tool_calls[1].id].step_index + 1] /= "completed")
       => /\ active_plan_id \in DOMAIN plans'
          /\ plans'[active_plan_id].step_statuses[
                 step_execution_tracker[tool_calls[1].id].step_index + 1] /= "completed"
      ]_vars

(***************************************************************************)
(* Claims about what a planning command keeps.                             *)
(***************************************************************************)
\* C35: a successful update of a stored plan with a step list S makes S the
\* steps, keeps status and notes wherever S has the old step at the same
\* position, and sets every other position to not_started with empty notes;
\* a successful update without steps, or with an empty list, leaves steps,
\* statuses and notes as they were.
C35_UpdateKeepsUnchangedSteps ==
    [][\A title \in TitleArgs, S \in StepsArgs :
          ( /\ planCmd' = "update"
            /\ planRes' = "ok"
            /\ update_plan(planArg', title, S) )
          => LET old == plans[planArg']
                 new == plans'[planArg']
             IN  IF S = <<>>
                 THEN /\ new.steps = old.steps
                      /\ new.step_statuses = old.step_statuses
                      /\ new.step_notes = old.step_notes
                 ELSE /\ new.steps = S
                      /\ Len(new.step_statuses) = Len(S)
                      /\ Len(new.step_notes) = Len(S)
                      /\ \A i \in 1..Len(S) :
                            IF i <= Len(old.steps) /\ S[i] = old.steps[i]
                            THEN /\ new.step_statuses[i] = old.step_statuses[i]
                                 /\ new.step_notes[i] = old.step_notes[i]
                            ELSE /\ new.step_statuses[i] = "not_started"
                                 /\ new.step_notes[i] = ""
      ]_vars

\* An update gave a marked plan a second step: the first kept its status
\* and its notes, the new one starts anew.
C35_Witness ==
    /\ planCmd = "update"
    /\ planRes = "ok"
    /\ planCmds = 3
    /\ plans[planTarget].steps = <<"a", "b">>
    /\ plans[planTarget].step_statuses = <<"in_progress", "not_started">>
    /\ plans[planTarget].step_notes = <<"n", "">>

\* C36: a planning command that fails (a create with a duplicate id or
\* without title or steps, an update with invalid steps, a mark_step on an
\* unknown plan or with a bad index or an invalid status, a set_active or a
\* delete of an unknown id, a get that finds nothing) leaves every plan,
\* titles included, and the active plan id as they were.
C36_FailedCommandChangesNothing ==
    [][(planCmds' = planCmds + 1 /\ planRes' /= "ok")
       => /\ plans' = plans
          /\ current_plan_id' = current_plan_id]_vars

\* C37: after any sequence of planning commands the active plan id is unset
\* or the id of a stored plan; a delete of a plan other than the active one
\* leaves the active plan id as it was.
C37_ActiveIdNamesStoredPlan ==
    /\ [](current_plan_id = "" \/ current_plan_id \in DOMAIN plans)
    /\ [][( /\ planCmds' = planCmds + 1
            /\ planCmd' = "delete"
            /\ planArg' /= current_plan_id )
          => current_plan_id' = current_plan_id]_vars

\* Two plans were created and the one that is not active was deleted.
C37_Witness ==
    /\ planCmd = "delete"
    /\ planRes = "ok"
    /\ planArg = "p1"
    /\ current_plan_id = "p2"
    /\ DOMAIN plans = {"p2"}

(***************************************************************************)
(* Claims about what one run returns, and about undo.                      *)
(***************************************************************************)
\* C38: when a run on a session returns a result, the output and the error
\* it returns hold only what the command of this run wrote, and the sentinel
\* that ended the run is of this command: nothing an earlier command wrote
\* (after its sentinel was found, or after sentinel text in its own output)
\* is in the result or ends it.
C38_ResultIsOfItsCommand ==
    [][(opc = "polling" /\ opc' = "idle" /\ ret'.kind = "ok")
       => /\ \A k \in 1..Len(ret'.out) : ret'.out[k].cmd = ncmd
          /\ \A k \in 1..Len(ret'.err) : ret'.err[k].cmd = ncmd
          /\ one.out[FirstSentinel(one.out)].cmd = ncmd
      ]_vars

\* C39: a successful undo_edit leaves the path as the last edit not yet
\* undone (a successful create, str_replace or insert) found it; so k edits
\* followed by k undo_edit calls restore what was there before the first.
C39_UndoRevertsLastEdit ==
    [][( /\ edit_count' = edit_count + 1
         /\ edit_cmd' = "undo_edit"
         /\ edit_res' = "ok"
         /\ edit_stack /= <<>> )
       => file' = edit_stack[Len(edit_stack)]]_vars

====
